---- MODULE Spec2Model ----
(***************************************************************************)
(* Year-step transition engine of the GIM world simulator.                 *)
(*                                                                         *)
(* Real-valued fields are fixed-point integers: Scale stands for 1.0, so   *)
(* 0.35 is 350.  Products are rounded toward minus infinity (\div).        *)
(* Each sub-engine is a slice with its own specification; the fields of    *)
(* the world a slice reads but does not own are drawn afresh at each step  *)
(* (other phases of step_world change them between two reads).            *)
(***************************************************************************)
EXTENDS Integers, Sequences, FiniteSets, TLC

VARIABLES
    time,              \* WorldState.time
    active_sanctions,  \* AgentState.active_sanctions: actor -> target -> type
    sanction_years,    \* AgentState.sanction_years:   actor -> target -> years
    since_imposed,     \* history: resolve_sanctions calls since the intent branch last imposed
    agents,            \* WorldState.agents: id -> AgentState (the fields a slice uses)
    relations,         \* WorldState.relations: <<actor, target>> -> RelationState
    war_started,       \* history: the relations the last step's conflict actions put at war
    institutions,      \* WorldState.institutions: org id -> InstitutionState (legitimacy)
    global_state,      \* WorldState.global_state: co2 and carbon_pools, in tenths of a GtCO2
    history,           \* run_simulation's list of snapshots
    run,               \* run_simulation's position: years asked and left, start time, outcome
    institution_reports, \* WorldState.institution_reports: the list of the last reports
    observation,       \* the Observation a policy holds, each part a copy or a shared object
    debt_hist,         \* history of check_debt_crisis, per agent: the current run of true checks
    calls,             \* history: the number of phase functions or step_world calls so far
    last_step          \* history: the last call of step_world or of a phase (inputs, outcome, world before)

sancVars == <<active_sanctions, sanction_years, since_imposed>>
worldVars == <<agents, relations, war_started>>
finVars == <<institutions, debt_hist>>
auxVars == <<calls, last_step>>
climVars == <<global_state>>
runVars == <<history, run>>
obsVars == <<institution_reports, observation>>
vars == <<time, sancVars, worldVars, finVars, auxVars, climVars, runVars, obsVars>>

\* a slice that is not running leaves the others' variables empty
FinIdle == institutions = <<>> /\ debt_hist = <<>>
NoStep == [result |-> "none"]
AuxIdle == calls = 0 /\ last_step = NoStep
ClimIdle == global_state = [co2 |-> 0, carbon_pools |-> <<>>]
RunIdle == history = <<>> /\ run = [status |-> "none"]
ObsIdle == institution_reports = <<>> /\ observation = [kind |-> "none"]

----------------------------------------------------------------------------
(* Bounds of the model *)

MaxTime == 4
MaxWarTime == 3
MaxDebtTime == 3
MaxSymDebt == 150
MaxCalls == 2
MaxPairCalls == 2
MaxStepCalls == 2
MaxLookupCalls == 2
MaxClimateCalls == 4
MaxYears == 2
MaxSecurityTime == 2

----------------------------------------------------------------------------
(* Fixed-point helpers *)

Scale == 1000

Max(a, b) == IF a >= b THEN a ELSE b
Min(a, b) == IF a <= b THEN a ELSE b

\* the value as computed, with no clamp
Unclamped(value) == value

clamp01(value) == Max(0, Min(Scale, value))

\* x * y for two fixed-point numbers
Mul(x, y) == (x * y) \div Scale

\* F(v), with v computed once before F uses it (a statement after a statement)
Then(v, F(_)) == CHOOSE r \in {F(x) : x \in {v}} : TRUE

----------------------------------------------------------------------------
(* The roster.  world.agents keeps insertion order; AgentOrder is it. *)

AgentOrder == <<"A", "B">>
Agents == {AgentOrder[i] : i \in 1..Len(AgentOrder)}

\* An id that names no agent of the world (an action may carry any target).
Outsider == "Z"
Targets == Agents \cup {Outsider}

Other(a) == CHOOSE b \in Agents : b # a

----------------------------------------------------------------------------
(* Sanctions: political_dynamics.py *)

MIN_DURATION == 2
PROP_DROP == 200
PROP_SOFTEN == 400
SUPPORT_MILD == 350
SUPPORT_STRONG == 650

SanctionTypes == {"none", "mild", "strong"}
Absent == "absent"

severity(t) == CASE t = "none" -> 0 [] t = "mild" -> 1 [] t = "strong" -> 2

\* apply_political_constraints, the sanctions part: a list of SanctionsAction
FilterSanctions(list, sanction_propensity) ==
    IF sanction_propensity < PROP_DROP THEN <<>>
    ELSE IF sanction_propensity < PROP_SOFTEN
    THEN [i \in 1..Len(list) |->
            IF list[i].type = "strong" THEN [list[i] EXCEPT !.type = "mild"] ELSE list[i]]
    ELSE list

\* _intent_map_sanctions: the strongest type named for each target; "none" = no key
RECURSIVE IntentAfter(_, _, _)
IntentAfter(list, n, target) ==
    IF n = 0 THEN "none"
    ELSE LET current == IntentAfter(list, n - 1, target)
             s == list[n]
         IN IF s.target # target THEN current
            ELSE IF s.type = "strong" \/ current = "strong" THEN "strong"
            ELSE IF s.type = "mild" \/ current = "mild" THEN "mild"
            ELSE current

_intent_map_sanctions(list) == [t \in Targets |-> IntentAfter(list, Len(list), t)]

\* _sanction_support; blocks is "same" (one aligned block), "different", or
\* "nonaligned" (both NonAligned)
_sanction_support(propensity, conflict_level, trust, blocks, intent_type) ==
    LET base0 == (4 * propensity + 3 * conflict_level + 3 * (Scale - trust)) \div 10
        base1 == base0 + (CASE intent_type = "strong" -> 100
                            [] intent_type = "mild" -> 50
                            [] OTHER -> 0)
        base2 == CASE blocks = "same" -> (6 * base1) \div 10
                   [] blocks = "different" -> base1 + 50
                   [] OTHER -> base1
    IN clamp01(base2)

_desired_sanction_type(support) ==
    IF support < SUPPORT_MILD THEN "none"
    ELSE IF support < SUPPORT_STRONG THEN "mild"
    ELSE "strong"

\* resolve_sanctions lines 189-195: what an intent with its support becomes
DesiredFor(intent_type, support) ==
    LET d0 == IF support >= SUPPORT_MILD THEN _desired_sanction_type(support) ELSE "none"
        d1 == IF d0 # "none" /\ intent_type # "strong" /\ d0 = "strong" THEN "mild" ELSE d0
    IN IF d1 # "none" /\ severity(d1) < severity(intent_type) THEN intent_type ELSE d1

\* resolve_sanctions line 198
YearsOnImpose_Short(existing_years) == existing_years

YearsOnImpose(existing_years) == Max(existing_years, MIN_DURATION)

\* resolve_sanctions lines 174-203 for one actor and one target: the new
\* <<type, years, imposed>>; type Absent means the key is not in new_active
ResolveOne(actor, target, intent_type, support, existing_type, existing_years) ==
    LET desired == IF intent_type # "none" THEN DesiredFor(intent_type, support) ELSE "none"
    IN IF target = actor \/ target \notin Agents THEN <<Absent, 0, FALSE>>
       ELSE IF desired # "none" THEN <<desired, YearsOnImpose(existing_years), TRUE>>
       ELSE IF existing_type # Absent /\ existing_years > 0
            THEN <<existing_type, existing_years - 1, FALSE>>
       ELSE <<Absent, 0, FALSE>>

\* The lists a policy may put in foreign_policy.sanctions_actions
SanctionLists(a) ==
    LET o == Other(a)
    IN { <<>>,
         <<[target |-> o, type |-> "mild"]>>,
         <<[target |-> o, type |-> "strong"]>>,
         <<[target |-> o, type |-> "strong"], [target |-> o, type |-> "mild"]>>,
         <<[target |-> Outsider, type |-> "strong"], [target |-> o, type |-> "none"]>>,
         <<[target |-> a, type |-> "strong"]>> }

PropensityGrid == {150, 300, 900}
\* <<conflict_level, trust>> of a directed relation: the factory's, a hostile one
RelationGrid == {<<100, 600>>, <<800, 100>>}
BlockGrid == {"same", "different"}

SancInit ==
    /\ active_sanctions = [a \in Agents |-> [t \in Agents |-> Absent]]
    /\ sanction_years = [a \in Agents |-> [t \in Agents |-> 0]]
    /\ since_imposed = [a \in Agents |-> [t \in Agents |-> -1]]

\* step_world as far as sanctions go: politics filter the intents
\* (apply_political_constraints), then resolve_sanctions rebuilds every
\* actor's active_sanctions and sanction_years.
SanctionStep ==
    /\ time < MaxTime
    /\ \E lists \in [Agents -> UNION {SanctionLists(a) : a \in Agents}],
          prop \in [Agents -> PropensityGrid],
          rel \in [Agents -> RelationGrid],
          blocks \in BlockGrid :
        /\ \A a \in Agents : lists[a] \in SanctionLists(a)
        /\ LET intents == [a \in Agents |->
                            _intent_map_sanctions(FilterSanctions(lists[a], prop[a]))]
               res == [a \in Agents |-> [t \in Agents |->
                        ResolveOne(a, t, intents[a][t],
                                   _sanction_support(prop[a], rel[a][1], rel[a][2],
                                                     blocks, intents[a][t]),
                                   active_sanctions[a][t], sanction_years[a][t])]]
           IN /\ active_sanctions' = [a \in Agents |-> [t \in Agents |-> res[a][t][1]]]
              /\ sanction_years' = [a \in Agents |-> [t \in Agents |-> res[a][t][2]]]
              /\ since_imposed' = [a \in Agents |-> [t \in Agents |->
                    IF res[a][t][3] THEN 0
                    ELSE IF since_imposed[a][t] < 0 THEN -1
                    ELSE Min(since_imposed[a][t] + 1, MIN_DURATION + 1)]]
    /\ time' = time + 1

----------------------------------------------------------------------------
(* War: geopolitics.py.  A world of three countries.                       *)

WarOrder == <<"A", "B", "C">>
WarAgents == {WarOrder[i] : i \in 1..Len(WarOrder)}
WarPairs == {p \in WarAgents \X WarAgents : p[1] # p[2]}

\* position in world.agents / world.relations; ids compare as their positions do
Pos(a) == CHOOSE i \in 1..Len(WarOrder) : WarOrder[i] = a

\* the smallest positive fixed-point number stands for the 1e-6 floors
EPS == 1

GATE_CONFLICT == 550
GATE_TRUST == 250
GATE_INCIDENT == 300
AUTO_CONFLICT == 450
BASE_GDP_LOSS_ONSET == 100
BASE_CAPITAL_LOSS_ONSET == 150
BASE_GDP_LOSS_WAR == 30
BASE_CAPITAL_LOSS_WAR == 40
EXHAUST_GDP == 700
EXHAUST_POP == 900
EXHAUST_RES == 500

\* x scaled by the fixed-point factor f, never below 0 (x *= max(0.0, f))
Scaled(x, f) == (x * Max(0, f)) \div Scale

_resource_index(agent) ==
    (10 * agent.own_reserve.energy + 6 * agent.own_reserve.food
        + 4 * agent.own_reserve.metals) \div 10

\* the snapshot taken again at every call
_ensure_war_start_again(rel, agent) ==
    [rel EXCEPT !.war_start_gdp = Max(agent.gdp, EPS),
                !.war_start_pop = Max(agent.population, 1),
                !.war_start_resource = Max(_resource_index(agent), EPS)]

\* _ensure_war_start: the snapshot is taken once, while war_start_gdp is 0
_ensure_war_start(rel, agent) ==
    IF rel.war_start_gdp > 0 THEN rel
    ELSE [rel EXCEPT !.war_start_gdp = Max(agent.gdp, EPS),
                     !.war_start_pop = Max(agent.population, 1),
                     !.war_start_resource = Max(_resource_index(agent), EPS)]

\* military share of x against y, given the floored total
Share(x, total) == (x * Scale) \div total

\* loss = base * (k0 + k1 * (1 - share))
LossRate(base, k0, k1, share) == (base * (k0 + (k1 * (Scale - share)) \div Scale)) \div Scale

\* _auto_security_action lines 149-157: the relation with the highest score
AutoScore(w, a, t) ==
    w.relations[<<a, t>>].conflict_level + (Scale - w.relations[<<a, t>>].trust) \div 2

RECURSIVE AutoBest(_, _, _, _, _)
AutoBest(w, a, i, best, best_score) ==
    IF i > Len(WarOrder) THEN best
    ELSE LET t == WarOrder[i]
         IN IF t # a /\ AutoScore(w, a, t) > best_score
            THEN AutoBest(w, a, i + 1, t, AutoScore(w, a, t))
            ELSE AutoBest(w, a, i + 1, best, best_score)

\* _auto_security_action: "auto" is what the trigger and the roll decide, one of
\* "none", "military_exercise", "arms_buildup", "border_incident" (never "conflict");
\* it fires only against the best target and only at conflict_level >= 0.45
_auto_security_action(w, a, auto) ==
    LET best == AutoBest(w, a, 1, "", 0)
    IN IF best = "" \/ auto = "none" THEN <<"none", "">>
       ELSE IF w.relations[<<a, best>>].conflict_level < AUTO_CONFLICT THEN <<"none", "">>
       ELSE <<auto, best>>

\* the requested type applied as it is, with no gate
UngatedType(type, conflict_sum, trust_at) == type

\* apply_security_actions lines 212-216: the escalation gate
GateType(type, conflict_sum, trust_at) ==
    IF type = "conflict" /\ (conflict_sum < 2 * GATE_CONFLICT \/ trust_at > GATE_TRUST)
    THEN "border_incident"
    ELSE IF type = "border_incident" /\ conflict_sum < 2 * GATE_INCIDENT
    THEN "military_exercise"
    ELSE type

\* the level raised with no ceiling
RaiseConflictUnbounded(rel, d) == [rel EXCEPT !.conflict_level = rel.conflict_level + d]

RaiseConflict(rel, d) == [rel EXCEPT !.conflict_level = Min(Scale, rel.conflict_level + d)]

\* apply_security_actions lines 218-270 for one actor, one target, one (gated) type
SecurityEffects(w, actor_id, target_id, type) ==
    LET actor == w.agents[actor_id]
        target == w.agents[target_id]
        at == w.relations[<<actor_id, target_id>>]
        ta == w.relations[<<target_id, actor_id>>]
        hit(side, gdp_f, cap_f, tension, trust) ==
            [side EXCEPT !.gdp = Scaled(side.gdp, gdp_f),
                         !.capital = Scaled(side.capital, cap_f),
                         !.social_tension = Min(Scale, side.social_tension + tension),
                         !.trust_gov = Max(0, side.trust_gov - trust)]
        total_power == Max(actor.military_power + target.military_power, EPS)
        share_actor == Share(actor.military_power, total_power)
        share_target == Share(target.military_power, total_power)
        actor1 == hit(actor, Scale - LossRate(BASE_GDP_LOSS_ONSET, 700, 600, share_actor),
                      Scale - LossRate(BASE_CAPITAL_LOSS_ONSET, 700, 600, share_actor), 150, 100)
        target1 == hit(target, Scale - LossRate(BASE_GDP_LOSS_ONSET, 700, 600, share_target),
                       Scale - LossRate(BASE_CAPITAL_LOSS_ONSET, 700, 600, share_target), 150, 100)
        war(rel, side) ==
            _ensure_war_start(
                [RaiseConflict(rel, 400) EXCEPT !.trust = (rel.trust * 8) \div 10,
                                                !.at_war = TRUE], side)
    IN CASE type = "military_exercise" ->
            [w EXCEPT !.relations[<<actor_id, target_id>>] =
                          [RaiseConflict(at, 50) EXCEPT !.trust = (at.trust * 98) \div 100],
                      !.relations[<<target_id, actor_id>>] =
                          [RaiseConflict(ta, 50) EXCEPT !.trust = (ta.trust * 98) \div 100]]
         [] type = "arms_buildup" ->
            [w EXCEPT !.agents[actor_id].military_power = (actor.military_power * 105) \div 100,
                      !.relations[<<actor_id, target_id>>] = RaiseConflict(at, 80),
                      !.relations[<<target_id, actor_id>>] = RaiseConflict(ta, 80)]
         [] type = "border_incident" ->
            [w EXCEPT !.agents[actor_id] = hit(actor, 990, Scale, 50, 30),
                      !.agents[target_id] = hit(target, 990, Scale, 50, 30),
                      !.relations[<<actor_id, target_id>>] = RaiseConflict(at, 200),
                      !.relations[<<target_id, actor_id>>] = RaiseConflict(ta, 200)]
         [] type = "conflict" ->
            [w EXCEPT !.agents[actor_id] = actor1,
                      !.agents[target_id] = target1,
                      !.relations[<<actor_id, target_id>>] = war(at, actor1),
                      !.relations[<<target_id, actor_id>>] = war(ta, target1)]
         [] OTHER -> w

\* apply_security_actions, one action: sec = <<type, target>>, auto as above
SecurityOne(w, actor_id, sec, auto) ==
    LET chosen == IF sec[1] = "none" THEN _auto_security_action(w, actor_id, auto) ELSE sec
        type == chosen[1]
        target_id == chosen[2]
    IN IF type = "none" \/ target_id \notin WarAgents \/ target_id = actor_id THEN w
       ELSE SecurityEffects(w, actor_id, target_id,
                GateType(type,
                         w.relations[<<actor_id, target_id>>].conflict_level
                            + w.relations[<<target_id, actor_id>>].conflict_level,
                         w.relations[<<actor_id, target_id>>].trust))

\* apply_security_actions: the actions in the order of the actions dict
RECURSIVE SecurityFrom(_, _, _, _)
SecurityFrom(w, i, secs, autos) ==
    IF i > Len(WarOrder) THEN w
    ELSE Then(SecurityOne(w, WarOrder[i], secs[WarOrder[i]], autos[WarOrder[i]]),
              LAMBDA w1 : SecurityFrom(w1, i + 1, secs, autos))

apply_security_actions(w, secs, autos) == SecurityFrom(w, 1, secs, autos)

\* update_active_conflicts._exhausted
_exhausted(rel, side) ==
    ~ ( /\ side.gdp * Scale >= EXHAUST_GDP * rel.war_start_gdp
        /\ side.population * Scale >= EXHAUST_POP * rel.war_start_pop
        /\ _resource_index(side) * Scale >= EXHAUST_RES * rel.war_start_resource )

\* update_active_conflicts lines 292-293
SameWarYears(war_years) == war_years

NextWarYears(war_years) == war_years + 1

\* update_active_conflicts line 293 left out
rel_ta_war_years_kept(war_years) == war_years

\* update_active_conflicts line 293: the reverse relation's war_years
rel_ta_war_years(war_years) == war_years + 1

EndWar(rel) == [rel EXCEPT !.at_war = FALSE, !.war_years = 0, !.war_start_gdp = 0,
                           !.war_start_pop = 0, !.war_start_resource = 0]

\* whether the war of a pair ends: lines 326-330
WarEnds(actor_exhausted, target_exhausted) == actor_exhausted \/ target_exhausted

\* update_active_conflicts lines 278-366 for the pair actor_id < target_id
ConflictPair(w, actor_id, target_id) ==
    LET at0 == w.relations[<<actor_id, target_id>>]
        ta0 == w.relations[<<target_id, actor_id>>]
        actor0 == w.agents[actor_id]
        target0 == w.agents[target_id]
        at1 == _ensure_war_start([at0 EXCEPT !.at_war = TRUE,
                                             !.war_years = NextWarYears(@)], actor0)
        ta1 == _ensure_war_start([ta0 EXCEPT !.at_war = TRUE,
                                             !.war_years = rel_ta_war_years(@)], target0)
        mil_actor == Max(actor0.military_power, EPS)
        mil_target == Max(target0.military_power, EPS)
        share_actor == Share(mil_actor, mil_actor + mil_target)
        share_target == Share(mil_target, mil_actor + mil_target)
        actor1 == [actor0 EXCEPT
                    !.capital = Scaled(@, Scale - LossRate(BASE_CAPITAL_LOSS_WAR, 800, 400, share_actor)),
                    !.gdp = Scaled(@, Scale - LossRate(BASE_GDP_LOSS_WAR, 800, 400, share_actor))]
        target1 == [target0 EXCEPT
                    !.capital = Scaled(@, Scale - LossRate(BASE_CAPITAL_LOSS_WAR, 800, 400, share_target)),
                    !.gdp = Scaled(@, Scale - LossRate(BASE_GDP_LOSS_WAR, 800, 400, share_target))]
        at2 == [at1 EXCEPT !.trade_intensity = (@ * 92) \div 100]
        ta2 == [ta1 EXCEPT !.trade_intensity = (@ * 92) \div 100]
        actor_exhausted == _exhausted(at2, actor1)
        target_exhausted == _exhausted(ta2, target1)
        tired(side) == [side EXCEPT !.military_power = (@ * 9) \div 10,
                                    !.social_tension = Min(Scale, @ + 80),
                                    !.trust_gov = Max(0, @ - 50)]
        won(side) == [side EXCEPT !.trust_gov = clamp01(@ + 30),
                                  !.social_tension = Max(0, @ - 30)]
        lost(side) == [side EXCEPT !.trust_gov = Max(0, @ - 80),
                                   !.social_tension = Min(Scale, @ + 100),
                                   !.military_power = (@ * 85) \div 100]
        settle(rel, level, trust_pct) ==
            [EndWar(rel) EXCEPT !.conflict_level = level, !.trust = (@ * trust_pct) \div 100]
    IN IF ~(at0.at_war \/ ta0.at_war) THEN w
       ELSE IF ~WarEnds(actor_exhausted, target_exhausted)
       THEN [w EXCEPT !.agents[actor_id] = actor1, !.agents[target_id] = target1,
                      !.relations[<<actor_id, target_id>>] = at2,
                      !.relations[<<target_id, actor_id>>] = ta2]
       ELSE IF actor_exhausted /\ target_exhausted
       THEN [w EXCEPT !.agents[actor_id] = tired(actor1), !.agents[target_id] = tired(target1),
                      !.relations[<<actor_id, target_id>>] = settle(at2, 450, 90),
                      !.relations[<<target_id, actor_id>>] = settle(ta2, 450, 90)]
       ELSE [w EXCEPT !.agents[actor_id] = IF actor_exhausted THEN lost(actor1) ELSE won(actor1),
                      !.agents[target_id] = IF actor_exhausted THEN won(target1) ELSE lost(target1),
                      !.relations[<<actor_id, target_id>>] = settle(at2, 500, 85),
                      !.relations[<<target_id, actor_id>>] = settle(ta2, 500, 85)]

\* the pairs update_active_conflicts visits, in its order: actor_id < target_id
ConflictPairs == <<<<"A", "B">>, <<"A", "C">>, <<"B", "C">>>>

RECURSIVE ConflictsFrom(_, _)
ConflictsFrom(w, k) ==
    IF k > Len(ConflictPairs) THEN w
    ELSE Then(ConflictPair(w, ConflictPairs[k][1], ConflictPairs[k][2]),
              LAMBDA w1 : ConflictsFrom(w1, k + 1))

update_active_conflicts(w) == ConflictsFrom(w, 1)

\* RelationState defaults with the factory's trade_intensity, and a <<conflict_level, trust>>
BaseRelation(ct) ==
    [trade_intensity |-> 500, trust |-> ct[2], conflict_level |-> ct[1], trade_barrier |-> 0,
     at_war |-> FALSE, war_years |-> 0,
     war_start_gdp |-> 0, war_start_pop |-> 0, war_start_resource |-> 0]

BaseAgent(military_power, reserve) ==
    [gdp |-> 10000, capital |-> 30000, population |-> 1000,
     own_reserve |-> [energy |-> reserve, food |-> reserve, metals |-> reserve],
     military_power |-> military_power, trust_gov |-> 500, social_tension |-> 400]

\* <<conflict_level, trust>> of a pair: the factory's, and one past the escalation gate
FactoryRelation == <<100, 600>>
HostileRelation == <<600, 200>>
\* <<military_power of A, own_reserve of B>>
WarInitGrid == {<<1000, 1000>>, <<3000, 1000>>, <<1000, 0>>}

\* what the other phases of a step do to the gdp the war reads:
\* check_debt_crisis (gdp x0.9) of one country, check_regime_stability
\* (gdp x0.8) of every country
ShockGrid == {"none", "debt_crisis", "regime_collapse"}

Shocked(w, shock) ==
    CASE shock = "debt_crisis" -> [w EXCEPT !.agents["A"].gdp = (@ * 9) \div 10]
      [] shock = "regime_collapse" ->
            [w EXCEPT !.agents = [a \in WarAgents |-> [w.agents[a] EXCEPT !.gdp = (@ * 8) \div 10]]]
      [] OTHER -> w

NoSecurity == [a \in WarAgents |-> <<"none", "">>]
NoAuto == [a \in WarAgents |-> "none"]

\* what the policies and the auto-trigger hand to a step: <<secs, autos>>, the
\* security_actions <<type, target>> per agent and the auto-trigger's outcome
SecurityGrid ==
    { <<NoSecurity, NoAuto>>,
      <<NoSecurity, [a \in WarAgents |-> "border_incident"]>>,
      <<[NoSecurity EXCEPT !["A"] = <<"conflict", "B">>], NoAuto>>,
      <<[NoSecurity EXCEPT !["C"] = <<"conflict", "A">>], NoAuto>>,
      <<[NoSecurity EXCEPT !["A"] = <<"conflict", "B">>, !["C"] = <<"conflict", "A">>], NoAuto>>,
      <<[NoSecurity EXCEPT !["B"] = <<"border_incident", "C">>], NoAuto>>,
      <<[NoSecurity EXCEPT !["B"] = <<"conflict", "C">>], NoAuto>>,
      <<[NoSecurity EXCEPT !["A"] = <<"arms_buildup", "C">>], NoAuto>>,
      <<[NoSecurity EXCEPT !["B"] = <<"conflict", Outsider>>], NoAuto>> }

WarInit ==
    \E g \in WarInitGrid :
        /\ agents = [a \in WarAgents |->
                        BaseAgent(IF a = "A" THEN g[1] ELSE 1000, IF a = "B" THEN g[2] ELSE 1000)]
        /\ war_started = {}
        /\ relations = [p \in WarPairs |->
                          BaseRelation(IF "A" \in {p[1], p[2]} THEN HostileRelation
                                       ELSE FactoryRelation)]

\* step_world as far as wars go: the other phases, then apply_security_actions,
\* then update_active_conflicts (simulation.py 299-300); nothing after them in
\* the step writes at_war, war_years or the war-start snapshot.
WarStep ==
    /\ time < MaxWarTime
    /\ \E sec \in SecurityGrid, shock \in ShockGrid :
       \E w0 \in {Shocked([agents |-> agents, relations |-> relations], shock)} :
       \E w1 \in {apply_security_actions(w0, sec[1], sec[2])} :
       \E w2 \in {update_active_conflicts(w1)} :
           /\ agents' = w2.agents
           /\ relations' = w2.relations
           /\ war_started' = {p \in WarPairs : ~w0.relations[p].at_war /\ w1.relations[p].at_war}
    /\ time' = time + 1
    /\ UNCHANGED <<sancVars, finVars, auxVars, climVars, runVars, obsVars>>

WarSpecInit == time = 0 /\ WarInit /\ SancInit /\ FinIdle /\ AuxIdle /\ ObsIdle /\ RunIdle /\ ClimIdle
SpecWar == WarSpecInit /\ [][WarStep]_vars

----------------------------------------------------------------------------
(* Public finances and the debt crisis: economy.py, social.py,             *)
(* institutions.py.  Money is in units of 1e-4 (gdp 10000 is 1.0); an      *)
(* interest rate is in units of 1e-5 (Scale * Fine is 1.0).                *)

Fine == 100

BASE_RATE == 2000
DEBT_EXCESS_FROM == 600
PARTNER_EXCESS_FROM == 900
CONTAGION_CAP == 5000
SPREAD_CAP == 25000
RATE_CAP == 35000
CRISIS_DEBT_GDP == 1200
CRISIS_RATE == 12000
MAX_NEW_DEBT == 50
TAX_RATE == 220
BASE_SPENDING == 19000
GRANT_SHARE == 5

\* public_debt / max(gdp, 1e-6), in thousandths
DebtGdp(agent) == (agent.public_debt * Scale) \div Max(agent.gdp, EPS)

effective_trade_intensity(relation) ==
    Max(0, (relation.trade_intensity * (Scale - clamp01(relation.trade_barrier))) \div Scale)

\* compute_effective_interest_rate lines 90-103: the partners in relations order
RECURSIVE ContagionSums(_, _, _)
ContagionSums(w, a, i) ==
    IF i = 0 THEN <<0, 0>>
    ELSE LET rest == ContagionSums(w, a, i - 1)
             partner_id == AgentOrder[i]
             partner == w.agents[partner_id]
             partner_excess == Max(0, DebtGdp(partner) - PARTNER_EXCESS_FROM)
             partner_stress == (partner_excess * partner.debt_crisis_prone) \div Scale
             weight == effective_trade_intensity(w.relations[<<a, partner_id>>])
         IN IF partner_id = a THEN rest
            ELSE <<rest[1] + weight * partner_stress, rest[2] + weight>>

compute_effective_interest_rate(w, a) ==
    LET agent == w.agents[a]
        excess == Max(0, DebtGdp(agent) - DEBT_EXCESS_FROM)
        spread_raw == 3 * excess + (excess * excess) \div 100
        fragility == Scale - agent.regime_stability
        spread == (((spread_raw * (500 + agent.debt_crisis_prone \div 2)) \div Scale)
                    * (700 + (6 * fragility) \div 10)) \div Scale
        sums == ContagionSums(w, a, Len(AgentOrder))
        contagion_spread ==
            IF sums[2] > 0 THEN Min(CONTAGION_CAP, 2 * (sums[1] \div sums[2])) ELSE 0
    IN Max(0, Min(BASE_RATE + Min(spread, SPREAD_CAP) + contagion_spread, RATE_CAP))

\* update_public_finances: the new public_debt
update_public_finances(w, a) ==
    LET agent == w.agents[a]
        gdp == Max(agent.gdp, EPS)
        share == BASE_SPENDING + 500 + (1500 * Max(0, agent.climate_risk)) \div Scale
        gov_spending == Max(0, (gdp * share) \div (Scale * Fine))
        taxes == (TAX_RATE * gdp) \div Scale
        interest_payments == (compute_effective_interest_rate(w, a) * agent.public_debt)
                                \div (Scale * Fine)
        total_deficit == gov_spending - taxes + interest_payments
        max_new_debt == (MAX_NEW_DEBT * gdp) \div Scale
    IN [w EXCEPT !.agents[a].public_debt =
            IF total_deficit > 0 THEN agent.public_debt + Min(total_deficit, max_new_debt)
            ELSE Max(0, agent.public_debt + total_deficit)]

\* check_debt_crisis line 183
DebtCrisisCondition(w, a) ==
    DebtGdp(w.agents[a]) > CRISIS_DEBT_GDP /\ compute_effective_interest_rate(w, a) > CRISIS_RATE

\* check_debt_crisis lines 184-185: whether a check whose condition holds shocks
ShockAlways(flag) == TRUE

ShockDue(flag) == flag # "true"

\* check_debt_crisis; flag is _debt_crisis_this_step: "absent", "true" or "false"
check_debt_crisis(w, a) ==
    LET agent == w.agents[a]
    IN IF DebtCrisisCondition(w, a)
       THEN IF ShockDue(agent.flag)
            THEN [w EXCEPT !.agents[a] =
                    [agent EXCEPT !.flag = "true",
                                  !.public_debt = (@ * 6) \div 10,
                                  !.gdp = (@ * 9) \div 10,
                                  !.trust_gov = Max(0, @ - 150),
                                  !.social_tension = Min(Scale, @ + 150),
                                  !.regime_stability = Max(0, @ - 150)]]
            ELSE w
       ELSE IF agent.flag # "absent" THEN [w EXCEPT !.agents[a].flag = "false"]
       ELSE w

NoHistory == [run_len |-> 0, run_shocks |-> 0, runs |-> 0, shocked |-> FALSE]

\* the history of one agent after a check: cond is the condition the check
\* evaluated, shocked whether it applied the shock
HistoryAfter(h, cond, shocked) ==
    IF ~cond THEN [h EXCEPT !.run_len = 0, !.run_shocks = 0, !.shocked = shocked]
    ELSE [run_len |-> h.run_len + 1,
          run_shocks |-> h.run_shocks + (IF shocked THEN 1 ELSE 0),
          runs |-> IF h.run_len = 0 THEN h.runs + 1 ELSE h.runs,
          shocked |-> shocked]

\* step_world lines 321-323 for one agent: update_public_finances, then
\* check_debt_crisis; w.hist records what the check saw and did
FinancesOne(w, a) ==
    Then(update_public_finances(w, a), LAMBDA financed :
        Then(check_debt_crisis(financed, a), LAMBDA checked :
            [checked EXCEPT !.hist[a] =
                HistoryAfter(@, DebtCrisisCondition(financed, a),
                             checked.agents[a].gdp # financed.agents[a].gdp)]))

\* step_world lines 321-323: the agents in order
RECURSIVE FinancesFrom(_, _)
FinancesFrom(w, i) ==
    IF i > Len(AgentOrder) THEN w
    ELSE Then(FinancesOne(w, AgentOrder[i]), LAMBDA w1 : FinancesFrom(w1, i + 1))

\* build_default_institutions: the FinanceOrg institutions, in dict order, with
\* base_budget_share in units of 1e-4; every agent is a member
FinanceOrgs == <<"IMF", "WorldBank", "FSB">>
base_budget_share(org) == CASE org = "IMF" -> 12 [] org = "WorldBank" -> 8 [] org = "FSB" -> 3
InitialLegitimacy(org) == CASE org = "IMF" -> 650 [] org = "WorldBank" -> 620 [] org = "FSB" -> 600

\* _update_legitimacy with the FinanceOrg target of update_institutions
_update_legitimacy(legitimacy, avg_trust) ==
    clamp01((95 * legitimacy + 5 * clamp01(400 + (6 * avg_trust) \div 10)) \div 100)

\* _apply_org_measures, FinanceOrg: the members in order from member i, with
\* what is left of the budget
RECURSIVE LiquiditySupport(_, _, _)
LiquiditySupport(w, budget, i) ==
    IF i > Len(AgentOrder) \/ budget <= 0 THEN w
    ELSE LET a == AgentOrder[i]
             agent == w.agents[a]
             gdp == Max(agent.gdp, EPS)
             need == Max(0, DebtGdp(agent) - Scale)
                        + Max(0, 20 - (agent.fx_reserves * Scale) \div gdp)
             grant == Min(budget, (GRANT_SHARE * gdp) \div Scale)
         IN IF need <= 0 \/ grant <= 0 THEN LiquiditySupport(w, budget, i + 1)
            ELSE Then([w EXCEPT !.agents[a].fx_reserves = @ + grant,
                                !.agents[a].public_debt = @ + grant],
                      LAMBDA w1 : LiquiditySupport(w1, budget - grant, i + 1))

\* update_institutions for the FinanceOrg institutions from the k-th on
RECURSIVE InstitutionsFrom(_, _, _, _)
InstitutionsFrom(w, k, total_gdp, avg_trust) ==
    IF k > Len(FinanceOrgs) THEN w
    ELSE LET org == FinanceOrgs[k]
             legitimacy == _update_legitimacy(w.institutions[org], avg_trust)
             budget == (base_budget_share(org) * ((total_gdp * legitimacy) \div Scale)) \div 10000
         IN Then(LiquiditySupport([w EXCEPT !.institutions[org] = legitimacy], budget, 1),
                 LAMBDA w1 : InstitutionsFrom(w1, k + 1, total_gdp, avg_trust))

RECURSIVE SumOver(_, _, _)
SumOver(w, field, i) ==
    IF i = 0 THEN 0
    ELSE SumOver(w, field, i - 1)
            + (IF field = "gdp" THEN w.agents[AgentOrder[i]].gdp
               ELSE w.agents[AgentOrder[i]].trust_gov)

\* update_institutions: _compute_global_metrics is taken once, before any measure
update_institutions(w) ==
    Then(SumOver(w, "gdp", Len(AgentOrder)), LAMBDA total_gdp :
        Then(SumOver(w, "trust_gov", Len(AgentOrder)) \div Len(AgentOrder), LAMBDA avg_trust :
            InstitutionsFrom(w, 1, total_gdp, avg_trust)))

\* update_economy_output lines 60-63: gdp moves toward gdp_target
update_economy_output(agent, gdp_target) ==
    LET gdp_now == Max(agent.gdp, EPS)
        gap == ((gdp_target - gdp_now) * Scale) \div gdp_now
        adjust_speed == 300 + (350 * clamp01(Max(0, gap))) \div Scale
    IN [agent EXCEPT !.gdp = ((Scale - adjust_speed) * agent.gdp + adjust_speed * gdp_target)
                                \div Scale]

\* the gdp_target the production function gives: the present gdp, half of it,
\* a fifth more
TargetGrid == {"same", "half", "up"}
GdpTarget(agent, t) ==
    CASE t = "half" -> agent.gdp \div 2 [] t = "up" -> (12 * agent.gdp) \div 10 [] OTHER -> agent.gdp

FinanceAgent(public_debt) ==
    [gdp |-> 10000, public_debt |-> public_debt, fx_reserves |-> 1000,
     regime_stability |-> 600, debt_crisis_prone |-> 500, climate_risk |-> 300,
     trust_gov |-> 500, social_tension |-> 400, flag |-> "absent"]

\* public_debt of a country at the start: none of note, over the crisis
\* condition, far over it
DebtGrid == {5000, 15800, 30000}

FinanceRelations ==
    [p \in {q \in Agents \X Agents : q[1] # q[2]} |-> BaseRelation(FactoryRelation)]

FinanceInit(debts) ==
    /\ agents = [a \in Agents |-> FinanceAgent(debts[a])]
    /\ relations = FinanceRelations
    /\ institutions = [org \in {FinanceOrgs[k] : k \in 1..Len(FinanceOrgs)} |->
                          InitialLegitimacy(org)]
    /\ debt_hist = [a \in Agents |-> NoHistory]
    /\ war_started = {}

\* step_world as far as public finances go, with apply_institutions as given:
\* update_institutions, update_economy_output of every agent, then
\* update_public_finances and check_debt_crisis agent by agent
FinanceStep(apply_institutions, targets) ==
    \E w0 \in {[agents |-> agents, relations |-> relations, institutions |-> institutions,
                  hist |-> debt_hist]} :
    \E w1 \in {IF apply_institutions THEN update_institutions(w0) ELSE w0} :
    \E w2 \in {[w1 EXCEPT !.agents = [a \in Agents |->
                    update_economy_output(w1.agents[a], GdpTarget(w1.agents[a], targets[a]))]]} :
    \E w3 \in {FinancesFrom(w2, 1)} :
       /\ agents' = w3.agents
       /\ institutions' = w3.institutions
       /\ debt_hist' = w3.hist
       /\ UNCHANGED <<relations, war_started, sancVars, auxVars, climVars, runVars, obsVars>>

\* a run of steps (institutions applied, the default) of a world of two
\* countries, with any start debts and any course of their output
DebtStep ==
    /\ time < MaxDebtTime
    /\ \E targets \in [Agents -> TargetGrid] : FinanceStep(TRUE, targets)
    /\ time' = time + 1

DebtSpecInit == time = 0 /\ SancInit /\ AuxIdle /\ ObsIdle /\ RunIdle /\ ClimIdle /\ \E debts \in [Agents -> DebtGrid] : FinanceInit(debts)
SpecDebt == DebtSpecInit /\ [][DebtStep]_vars

(* C4: check_debt_crisis applies the shock exactly once per maximal run of   *)
(* consecutive checks whose condition (debt/gdp > 1.2 and rate > 0.12)       *)
(* holds: at the first check of the run, at no later check of it, and at no  *)
(* check whose condition is false; so a run that follows a false check gets  *)
(* a shock of its own.                                                       *)
C4_DebtCrisisLatch ==
    \A a \in DOMAIN debt_hist :
        /\ debt_hist[a].run_len > 0 => debt_hist[a].run_shocks = 1
        /\ debt_hist[a].shocked <=> debt_hist[a].run_len = 1

C4_Witness ==
    /\ debt_hist["A"].runs = 2 /\ debt_hist["A"].shocked
    /\ debt_hist["B"].run_len >= 2 /\ debt_hist["B"].run_shocks = 1

\* the symmetry scenario: two countries identical in every field, one step
\* with no actions and no extreme events.  Identical countries have the same
\* gdp_target, and the phases of the step that follow check_debt_crisis
\* (migration, population, social state, regime stability) treat each
\* country by its own fields only.
SymDebtGrid == {200 * d : d \in 0..MaxSymDebt}

SymStep ==
    /\ time < 1
    /\ \E apply_institutions \in BOOLEAN :
          FinanceStep(apply_institutions, [a \in Agents |-> "same"])
    /\ time' = time + 1

SymSpecInit ==
    time = 0 /\ SancInit /\ AuxIdle /\ ObsIdle /\ RunIdle /\ ClimIdle /\ \E d \in SymDebtGrid : FinanceInit([a \in Agents |-> d])
SpecSym == SymSpecInit /\ [][SymStep]_vars

(* C7, as stated: after one step from any state in which the two countries  *)
(* are identical, with no actions and no extreme events, they have the same  *)
(* gdp, trust_gov and social_tension.                                        *)
C7_AsStated ==
    time = 1 =>
        /\ agents["A"].gdp = agents["B"].gdp
        /\ agents["A"].trust_gov = agents["B"].trust_gov
        /\ agents["A"].social_tension = agents["B"].social_tension

(* C2, as stated: in every post-step state no relation is at war with        *)
(* war_years = 0, and every relation a conflict action of the step put at    *)
(* war has war_years >= 1.                                                   *)
C2_AsStated ==
    \A p \in DOMAIN relations :
        /\ relations[p].at_war => relations[p].war_years >= 1
        /\ p \in war_started => relations[p].war_years >= 1

(* C2, amended: in every post-step state a relation that is at war has       *)
(* war_years >= 1 (so it is never at war with war_years = 0 in two           *)
(* consecutive post-step states); a relation a conflict action of the step   *)
(* put at war has war_years >= 1 unless the war also ended in that step, and *)
(* then it has at_war = False and war_years = 0.                             *)
C2_WarLifecycle ==
    \A p \in DOMAIN relations :
        /\ relations[p].at_war => relations[p].war_years >= 1
        /\ p \in war_started =>
              \/ relations[p].at_war /\ relations[p].war_years = 1
              \/ ~relations[p].at_war /\ relations[p].war_years = 0

C2_Witness ==
    /\ <<"A", "B">> \in war_started
    /\ relations[<<"A", "B">>].at_war /\ relations[<<"A", "B">>].war_years = 1
    /\ relations[<<"B", "A">>].at_war /\ relations[<<"B", "A">>].war_years = 1

(* C3, as stated: after update_active_conflicts no relation is at war while  *)
(* its own side is exhausted against the relation's war-start snapshot.      *)
C3_AsStated ==
    \A p \in DOMAIN relations :
        relations[p].at_war => ~_exhausted(relations[p], agents[p[1]])

SancSpecInit ==
    time = 0 /\ SancInit /\ agents = <<>> /\ relations = <<>> /\ war_started = {} /\ FinIdle /\ AuxIdle /\ ObsIdle /\ RunIdle /\ ClimIdle
SancSpecNext == SanctionStep /\ UNCHANGED <<worldVars, finVars, auxVars, climVars, runVars, obsVars>>
SpecSanctions == SancSpecInit /\ [][SancSpecNext]_vars

----------------------------------------------------------------------------
(* C1: sanction hysteresis.  Once resolve_sanctions has imposed a sanction *)
(* of an actor on a target, the target is still in the actor's             *)
(* active_sanctions after each of the next MIN_DURATION resolutions,       *)
(* whatever the actor's later intents are (none at all included).          *)
C1_SanctionHysteresis ==
    \A a \in Agents : \A t \in Agents :
        since_imposed[a][t] \in 0..MIN_DURATION => active_sanctions[a][t] # Absent

\* imposed, then two resolutions that did not impose: still active, counter spent
C1_Witness ==
    /\ since_imposed["A"]["B"] = MIN_DURATION
    /\ active_sanctions["A"]["B"] # Absent
    /\ sanction_years["A"]["B"] = 0

----------------------------------------------------------------------------
(* Agent fields kept in range: society, climate risk, regime stability and  *)
(* the political traits.  Every function of the step that writes one of     *)
(* them is an action of this slice; step_world calls them in one fixed      *)
(* order, the slice allows any order.  inequality_gini is in hundredths of  *)
(* a point, so 35.0 is 3500.                                                *)

GiniPoint == 100
Subject == "A"

\* what the functions read of the agent and the world but do not write here
Surroundings ==
    { [regime_type |-> "Democracy", pdi |-> 0, idv |-> 1000, mas |-> 0, uai |-> 1000,
       self_expression |-> 1000, unemployment |-> 300, inflation |-> 200,
       gdp_growth |-> -500, gdp_pc_effect |-> 0, gdp_per_capita |-> 5000,
       threat_high |-> TRUE, debt_gdp |-> 1500,
       conflict_proneness |-> 1000, debt_stress |-> 1000, resource_stress |-> 1000,
       water_stress |-> 1000, temp_component |-> 999, tech_res |-> 0, adapt_res |-> 0],
      [regime_type |-> "Autocracy", pdi |-> 1000, idv |-> 0, mas |-> 1000, uai |-> 0,
       self_expression |-> 0, unemployment |-> 0, inflation |-> 0,
       gdp_growth |-> 500, gdp_pc_effect |-> 1, gdp_per_capita |-> 40000,
       threat_high |-> FALSE, debt_gdp |-> 0,
       conflict_proneness |-> 0, debt_stress |-> 0, resource_stress |-> 0,
       water_stress |-> 0, temp_component |-> 0, tech_res |-> 1000, adapt_res |-> 1000],
      [regime_type |-> "Hybrid", pdi |-> 600, idv |-> 400, mas |-> 500, uai |-> 500,
       self_expression |-> -250, unemployment |-> 50, inflation |-> -20,
       gdp_growth |-> 0, gdp_pc_effect |-> 0, gdp_per_capita |-> 20000,
       threat_high |-> FALSE, debt_gdp |-> 600,
       conflict_proneness |-> 400, debt_stress |-> 200, resource_stress |-> 0,
       water_stress |-> 500, temp_component |-> 500, tech_res |-> 500, adapt_res |-> 0] }

\* gini / 100.0
GiniShare(agent) == (agent.inequality_gini * Scale) \div (100 * GiniPoint)

compute_protest_risk(agent) ==
    LET base == (6 * agent.social_tension + 3 * (Scale - agent.trust_gov) + GiniShare(agent)) \div 10
        fragility == Scale - agent.regime_stability
    IN  Max(0, Min(Mul(base, 500 + fragility \div 2), Scale))

update_political_state(agent, sur) ==
    LET trust == clamp01(agent.trust_gov)
        tension == clamp01(agent.social_tension)
        gini == clamp01(GiniShare(agent))
        protest_risk == clamp01(compute_protest_risk(agent))
        debt_stress == clamp01(sur.debt_stress)
        resource_stress == clamp01(sur.resource_stress)
        legitimacy == clamp01((6 * trust + 4 * (Scale - tension)) \div 10)
        protest_pressure == clamp01((protest_risk + tension) \div 2)
        hawkishness == clamp01((30 * sur.conflict_proneness + 25 * (Scale - trust)
                                + 25 * (Scale - agent.regime_stability)
                                + 20 * resource_stress) \div 100)
        coalition_openness == clamp01((6 * trust + 4 * (Scale - tension)) \div 10)
    IN  [agent EXCEPT
            !.legitimacy = legitimacy,
            !.protest_pressure = protest_pressure,
            !.hawkishness = hawkishness,
            !.protectionism = clamp01((4 * sur.unemployment + 3 * gini + 3 * (Scale - trust)) \div 10),
            !.coalition_openness = coalition_openness,
            !.sanction_propensity = clamp01((6 * hawkishness + 4 * (Scale - coalition_openness)) \div 10),
            !.policy_space = clamp01((5 * legitimacy + 3 * (Scale - protest_pressure)
                                      + 2 * (Scale - debt_stress)) \div 10)]

\* SocialOrg and ClimateOrg measures of an organisation of the given legitimacy
SocialSupport(agent, legitimacy) ==
    LET delta == (3 * legitimacy) \div Scale
    IN  [agent EXCEPT
            !.social_tension = Max(0, agent.social_tension - delta \div 2),
            !.trust_gov = clamp01(agent.trust_gov + (3 * delta) \div 10)]

ClimateAdaptation(agent, legitimacy) ==
    LET delta == (2 * legitimacy) \div Scale
    IN  IF agent.climate_risk < 500 THEN agent
        ELSE [agent EXCEPT !.climate_risk = Max(0, agent.climate_risk - delta)]

_apply_sanction_social_reaction(agent, sur, scale, autocracy_bias, tension_increase) ==
    LET rally == Mul(scale, sur.pdi)
        blame == Mul(Mul(scale, Scale - sur.pdi), 500 + sur.self_expression)
        trust_delta == IF sur.regime_type = "Autocracy" THEN rally - autocracy_bias ELSE 0 - blame
    IN  [agent EXCEPT
            !.trust_gov = clamp01(agent.trust_gov + trust_delta),
            !.social_tension = clamp01(agent.social_tension + tension_increase)]

\* n ** 0.5 for the pressure counts of the grid
Root(n) == CHOOSE r \in 0..n : r * r = n

\* the target loop of apply_sanctions_effects, for one target under mild and strong sanctions
SanctionPressure(agent, sur, mild, strong) ==
    IF mild <= 0 /\ strong <= 0 THEN agent
    ELSE _apply_sanction_social_reaction(agent, sur,
            Min(120, 20 * Root(mild) + 60 * Root(strong)),
            Min(40, 10 * Root(mild) + 20 * Root(strong)),
            Min(80, 15 * Root(mild) + 50 * Root(strong)))

\* what a security action, a war's continuation or its end does to a side's society
WarEffects == {"border_incident", "conflict", "tired", "won", "lost"}
WarSociety(agent, effect) ==
    CASE effect = "border_incident" ->
            [agent EXCEPT !.social_tension = Min(Scale, agent.social_tension + 50),
                          !.trust_gov = Max(0, agent.trust_gov - 30)]
      [] effect = "conflict" ->
            [agent EXCEPT !.social_tension = Min(Scale, agent.social_tension + 150),
                          !.trust_gov = Max(0, agent.trust_gov - 100)]
      [] effect = "tired" ->
            [agent EXCEPT !.social_tension = Min(Scale, agent.social_tension + 80),
                          !.trust_gov = Max(0, agent.trust_gov - 50)]
      [] effect = "won" ->
            [agent EXCEPT !.trust_gov = clamp01(agent.trust_gov + 30),
                          !.social_tension = Max(0, agent.social_tension - 30)]
      [] effect = "lost" ->
            [agent EXCEPT !.trust_gov = Max(0, agent.trust_gov - 80),
                          !.social_tension = Min(Scale, agent.social_tension + 100)]

\* the levers of a DomesticPolicy as a policy may return them, in thousandths
ActionGrid ==
    { [tax_fuel_change |-> 0, social_spending_change |-> 0, military_spending_change |-> 0,
       rd_investment_change |-> 0, climate_policy |-> "none"],
      [tax_fuel_change |-> 5000, social_spending_change |-> 1000, military_spending_change |-> 1000,
       rd_investment_change |-> 1000, climate_policy |-> "strong"],
      [tax_fuel_change |-> -5000, social_spending_change |-> -1000, military_spending_change |-> -1000,
       rd_investment_change |-> -1000, climate_policy |-> "weak"] }

_clamp(value, lo, hi) == Max(lo, Min(hi, value))

_normalize_domestic_levers(dom, sur) ==
    LET fuel == _clamp(dom.tax_fuel_change, -1500, 1500)
        social == _clamp(dom.social_spending_change, -15, 20)
        military == _clamp(dom.military_spending_change, -10, 15)
        rd == _clamp(dom.rd_investment_change, -2, 8)
        total_expansion == Max(0, social) + Max(0, military) + Max(0, rd)
        max_expansion == IF sur.debt_gdp > 1200 THEN 20 ELSE 30
        scaled(x) == IF total_expansion > max_expansion /\ total_expansion > 0
                     THEN (x * max_expansion) \div total_expansion ELSE x
    IN  [dom EXCEPT !.tax_fuel_change = fuel,
                    !.social_spending_change = scaled(social),
                    !.military_spending_change = scaled(military),
                    !.rd_investment_change = scaled(rd)]

FuelTax(agent, sur, fuel_tax_delta) ==
    IF fuel_tax_delta = 0 THEN agent
    ELSE LET pdi_factor == Scale - sur.pdi \div 2
             regime_tension_mult == CASE sur.regime_type = "Democracy" -> 1200
                                      [] sur.regime_type = "Autocracy" -> 800
                                      [] OTHER -> Scale
             sensitivity_tax == Mul(Mul(sur.uai, Scale + Max(0, sur.unemployment - 50)), pdi_factor)
             sensitivity_ineq == Mul(Mul(sur.idv, GiniShare(agent)), regime_tension_mult)
         IN  [agent EXCEPT
                 !.trust_gov = clamp01(agent.trust_gov - Mul(Mul(20, fuel_tax_delta), sensitivity_tax)),
                 !.social_tension = clamp01(agent.social_tension
                                            + Mul(Mul(20, fuel_tax_delta), sensitivity_ineq))]

SocialSpending(agent, social_spending_delta) ==
    IF social_spending_delta = 0 THEN agent
    ELSE [agent EXCEPT
             !.trust_gov = clamp01(agent.trust_gov + social_spending_delta \div 10),
             !.social_tension = clamp01(agent.social_tension - (8 * social_spending_delta) \div 100)]

MilitarySpending(agent, sur, military_spending_delta) ==
    IF military_spending_delta = 0 THEN agent
    ELSE LET regime_mult == CASE sur.regime_type = "Democracy" -> 1300
                              [] sur.regime_type = "Autocracy" -> 800
                              [] OTHER -> Scale
             trust_delta ==
                 IF sur.threat_high
                 THEN (20 * military_spending_delta * (800 + (6 * sur.mas) \div 10)) \div (Scale * Scale)
                 ELSE 0 - Mul(Mul((30 * military_spending_delta * (500 + sur.self_expression))
                                  \div (Scale * Scale), Scale - sur.mas), regime_mult)
         IN  [agent EXCEPT !.trust_gov = clamp01(agent.trust_gov + trust_delta)]

ClimatePolicy(agent, sur, climate_policy) ==
    IF climate_policy = "none" THEN agent
    ELSE LET intensity == CASE climate_policy = "weak" -> 10
                            [] climate_policy = "moderate" -> 30
                            [] climate_policy = "strong" -> 70
                            [] OTHER -> 0
             risk_level == agent.climate_risk
             base == Mul(intensity, risk_level - 500)
             raw_delta == IF base >= 0 THEN Mul(base, 500 + sur.self_expression)
                          ELSE Mul(base, 1500 - sur.self_expression)
             trust_delta == IF sur.regime_type = "Democracy" THEN (12 * raw_delta) \div 10 ELSE raw_delta
             trusted == [agent EXCEPT !.trust_gov = clamp01(agent.trust_gov + trust_delta)]
         IN  IF risk_level > 500 /\ sur.self_expression > 500
             THEN [trusted EXCEPT !.social_tension =
                      Max(0, agent.social_tension - (intensity * sur.self_expression) \div (100 * Scale))]
             ELSE trusted

apply_action(agent, sur, action) ==
    LET dom == _normalize_domestic_levers(action, sur)
    IN  Then(Then(Then(FuelTax(agent, sur, dom.tax_fuel_change),
                       LAMBDA a1 : SocialSpending(a1, dom.social_spending_change)),
                  LAMBDA a2 : MilitarySpending(a2, sur, dom.military_spending_change)),
             LAMBDA a3 : ClimatePolicy(a3, sur, dom.climate_policy))

_climate_resilience(agent, sur) ==
    clamp01((40 * agent.regime_stability + 30 * sur.tech_res
             + 15 * agent.trust_gov + 15 * sur.adapt_res) \div 100)

update_climate_risks(agent, sur) ==
    LET base == clamp01(300 + (45 * sur.water_stress) \div 100 + (15 * GiniShare(agent)) \div 100)
        target == clamp01(base + Mul(Scale - base, sur.temp_component))
    IN  [agent EXCEPT !.climate_risk = clamp01(agent.climate_risk + (6 * (target - agent.climate_risk)) \div 100)]

\* apply_climate_extreme_events for an agent whose random draw is below event_prob
ExtremeEvent(agent, sur) ==
    LET risk == agent.climate_risk
        resilience == _climate_resilience(agent, sur)
        tension_jump == Mul(30 + risk \div 10, Scale - (35 * resilience) \div 100)
        jumped == [agent EXCEPT !.social_tension = Min(Scale, agent.social_tension + tension_jump)]
    IN  IF risk <= 0 THEN agent
        ELSE IF agent.regime_stability > 600
             THEN [jumped EXCEPT !.trust_gov = Min(Scale, agent.trust_gov + 20 + (2 * resilience) \div 100)]
             ELSE [jumped EXCEPT !.trust_gov = Max(0, agent.trust_gov - (20 + (3 * risk) \div 100))]

\* the society and risk part of check_debt_crisis's shock
DebtShock(agent) ==
    [agent EXCEPT !.trust_gov = Max(0, agent.trust_gov - 150),
                  !.social_tension = Min(Scale, agent.social_tension + 150),
                  !.regime_stability = Max(0, agent.regime_stability - 150)]

GINI_MIN == 2000   \* 20.0 points
GINI_MAX == 7000   \* 70.0 points

update_social_state(agent, sur, social_spend_delta) ==
    LET trust_change == sur.gdp_pc_effect - (25 * sur.unemployment) \div Scale
                        - (25 * sur.inflation) \div Scale
                        - (4 * agent.inequality_gini) \div (10 * GiniPoint)
                        - (8 * Max(0, agent.social_tension - 300)) \div 100
        trust_gov == Max(0, Min(Scale, agent.trust_gov + trust_change))
        inequality_effect == Mul((5 * agent.inequality_gini) \div (10 * GiniPoint), Scale - sur.idv)
        stress_effect == (10 * sur.unemployment + 5 * sur.inflation) \div Scale
        trust_anchor == (6 * (500 - trust_gov)) \div 100
        social_tension == Max(0, Min(Scale, agent.social_tension
                                            + inequality_effect + stress_effect + trust_anchor))
        growth_effect == (6 * sur.gdp_growth * GiniPoint) \div Scale
        recession_penalty == (4 * (0 - Min(0, sur.gdp_growth)) * (500 + social_tension) * GiniPoint)
                             \div (Scale * Scale)
        fiscal_effect == 0 - (60 * social_spend_delta * GiniPoint) \div Scale
        tension_effect == (12 * (social_tension - 400) * GiniPoint) \div (10 * Scale)
        gini_next == agent.inequality_gini + growth_effect + recession_penalty
                     + fiscal_effect + tension_effect
    IN  [agent EXCEPT !.trust_gov = trust_gov,
                      !.social_tension = social_tension,
                      !.inequality_gini = Max(GINI_MIN, Min(GINI_MAX, gini_next))]

check_regime_stability(agent) ==
    IF agent.trust_gov < 200 /\ agent.social_tension > 800
    THEN IF agent.collapsed_this_step # "true"
         THEN [agent EXCEPT !.collapsed_this_step = "true",
                            !.trust_gov = Max(agent.trust_gov, 250),
                            !.social_tension = Min(agent.social_tension, 600),
                            !.regime_stability = Max(0, agent.regime_stability - 200)]
         ELSE agent
    ELSE IF agent.collapsed_this_step # "absent"
         THEN [agent EXCEPT !.collapsed_this_step = "false"]
         ELSE agent

\* society, climate and risk of an agent as the factory reads them from a CSV row
SocietyGrid ==
    { [trust_gov |-> 500, social_tension |-> 400, inequality_gini |-> 35 * GiniPoint,
       climate_risk |-> 300, regime_stability |-> 600],
      [trust_gov |-> 0, social_tension |-> 1000, inequality_gini |-> 100 * GiniPoint,
       climate_risk |-> 1000, regime_stability |-> 100],
      [trust_gov |-> 1000, social_tension |-> 0, inequality_gini |-> 0,
       climate_risk |-> 0, regime_stability |-> 1000] }

LegitimacyGrid == {0, 650, 1000}
PressureGrid == {<<1, 0>>, <<0, 1>>, <<4, 4>>}

\* the agent the factory builds: update_political_states has run once
RangeAgent(row, sur) ==
    update_political_state(
        [trust_gov |-> row.trust_gov, social_tension |-> row.social_tension,
         inequality_gini |-> row.inequality_gini, climate_risk |-> row.climate_risk,
         regime_stability |-> row.regime_stability, collapsed_this_step |-> "absent",
         legitimacy |-> 0, protest_pressure |-> 0, hawkishness |-> 0, protectionism |-> 0,
         coalition_openness |-> 0, sanction_propensity |-> 0, policy_space |-> 0], sur)

RangeInit ==
    /\ \E row \in SocietyGrid, sur \in Surroundings :
          agents = [a \in {Subject} |-> RangeAgent(row, sur)]
    /\ relations = <<>>
    /\ war_started = {}

\* one more phase function has run on the subject
Called(after) ==
    /\ calls < MaxCalls
    /\ calls' = calls + 1
    /\ agents' = [agents EXCEPT ![Subject] = after]
    /\ UNCHANGED <<time, relations, war_started, last_step, sancVars, finVars, climVars, runVars, obsVars>>

PoliticalStateCall == \E sur \in Surroundings : Called(update_political_state(agents[Subject], sur))
SocialSupportCall == \E l \in LegitimacyGrid : Called(SocialSupport(agents[Subject], l))
ClimateAdaptationCall == \E l \in LegitimacyGrid : Called(ClimateAdaptation(agents[Subject], l))
SanctionPressureCall ==
    \E sur \in Surroundings, n \in PressureGrid :
        Called(SanctionPressure(agents[Subject], sur, n[1], n[2]))
WarSocietyCall == \E effect \in WarEffects : Called(WarSociety(agents[Subject], effect))
ActionCall == \E sur \in Surroundings, action \in ActionGrid : Called(apply_action(agents[Subject], sur, action))
ClimateRisksCall == \E sur \in Surroundings : Called(update_climate_risks(agents[Subject], sur))
ExtremeEventCall == \E sur \in Surroundings : Called(ExtremeEvent(agents[Subject], sur))
DebtShockCall == Called(DebtShock(agents[Subject]))
SocialStateCall ==
    \E sur \in Surroundings, action \in ActionGrid :
        Called(update_social_state(agents[Subject], sur,
                                   _normalize_domestic_levers(action, sur).social_spending_change))
RegimeStabilityCall == Called(check_regime_stability(agents[Subject]))

RangeNext ==
    \/ PoliticalStateCall
    \/ SocialSupportCall
    \/ ClimateAdaptationCall
    \/ SanctionPressureCall
    \/ WarSocietyCall
    \/ ActionCall
    \/ ClimateRisksCall
    \/ ExtremeEventCall
    \/ DebtShockCall
    \/ SocialStateCall
    \/ RegimeStabilityCall

RangeSpecInit == time = 0 /\ RangeInit /\ SancInit /\ FinIdle /\ AuxIdle /\ ObsIdle /\ RunIdle /\ ClimIdle
SpecAgentRange == RangeSpecInit /\ [][RangeNext]_vars

Unit(x) == x \in 0..Scale

\* C5: whatever functions of the step have run, with whatever levers, the
\* agent's trust_gov, social_tension, climate_risk, regime_stability and its
\* seven political traits are in [0,1] and its inequality_gini is in [0,100].
C5_BoundedAgentFields ==
    \A a \in DOMAIN agents :
        /\ Unit(agents[a].trust_gov) /\ Unit(agents[a].social_tension)
        /\ Unit(agents[a].climate_risk) /\ Unit(agents[a].regime_stability)
        /\ Unit(agents[a].legitimacy) /\ Unit(agents[a].protest_pressure)
        /\ Unit(agents[a].hawkishness) /\ Unit(agents[a].protectionism)
        /\ Unit(agents[a].coalition_openness) /\ Unit(agents[a].sanction_propensity)
        /\ Unit(agents[a].policy_space)
        /\ agents[a].inequality_gini \in 0..(100 * GiniPoint)

\* a collapse has floored regime_stability at 0 and update_social_state has
\* cut a gini of 100 down to its ceiling
C5_Witness ==
    /\ calls = MaxCalls
    /\ agents[Subject].collapsed_this_step = "true"
    /\ agents[Subject].regime_stability = 0
    /\ agents[Subject].trust_gov >= 250
    /\ agents[Subject].inequality_gini = GINI_MAX

----------------------------------------------------------------------------
(* Relation fields kept in range: trust, conflict_level, trade_barrier and  *)
(* trade_intensity of the two directed relations of one pair.  Every        *)
(* function of the step that writes one of them is an action of this slice. *)

Pair == <<"A", "B">>
Back == <<"B", "A">>

\* what the functions read of the two agents, the actions and the institutions
PairSurroundings ==
    { [protectionism |-> 1000, intent_level |-> "hard", sanction_type |-> "strong", same_block |-> FALSE,
       rival_blocks |-> TRUE, avg_tension |-> 1000, mil_gap |-> 5000,
       security_legitimacy |-> 0, shared_security |-> FALSE],
      [protectionism |-> 0, intent_level |-> "none", sanction_type |-> "absent", same_block |-> TRUE,
       rival_blocks |-> FALSE, avg_tension |-> 0, mil_gap |-> 0,
       security_legitimacy |-> 1000, shared_security |-> TRUE],
      [protectionism |-> 400, intent_level |-> "soft", sanction_type |-> "mild", same_block |-> FALSE,
       rival_blocks |-> FALSE, avg_tension |-> 400, mil_gap |-> 500,
       security_legitimacy |-> 600, shared_security |-> FALSE] }

\* lines 61-68 of apply_sanctions_effects for one entry
SanctionRelation(rel, sanction_type) ==
    CASE sanction_type = "mild" ->
            [rel EXCEPT !.trade_intensity = (85 * rel.trade_intensity) \div 100,
                        !.trust = (92 * rel.trust) \div 100,
                        !.trade_barrier = Min(Scale, rel.trade_barrier + 50)]
      [] sanction_type = "strong" ->
            [rel EXCEPT !.trade_intensity = (65 * rel.trade_intensity) \div 100,
                        !.trust = (85 * rel.trust) \div 100,
                        !.trade_barrier = Min(Scale, rel.trade_barrier + 150)]
      [] OTHER -> rel

\* what a security action of the (gated) type does to either relation of the pair
SecurityTypes == {"military_exercise", "arms_buildup", "border_incident", "conflict"}
SecurityRelation(rel, type) ==
    CASE type = "military_exercise" -> [RaiseConflict(rel, 50) EXCEPT !.trust = (98 * rel.trust) \div 100]
      [] type = "arms_buildup" -> RaiseConflict(rel, 80)
      [] type = "border_incident" -> RaiseConflict(rel, 200)
      [] type = "conflict" -> [RaiseConflict(rel, 400) EXCEPT !.trust = (8 * rel.trust) \div 10]

\* what update_active_conflicts does to either relation of a warring pair
WarCourses == {"continues", "tired", "decided"}
WarRelation(rel, course) ==
    LET worn == [rel EXCEPT !.trade_intensity = (92 * rel.trade_intensity) \div 100]
    IN  CASE course = "continues" -> worn
          [] course = "tired" -> [worn EXCEPT !.conflict_level = 450, !.trust = (9 * rel.trust) \div 10]
          [] course = "decided" -> [worn EXCEPT !.conflict_level = 500, !.trust = (85 * rel.trust) \div 100]

\* update_trade_barriers for one relation
TradeBarrier(rel, sur) ==
    LET intent_boost == CASE sur.intent_level = "soft" -> 150
                          [] sur.intent_level = "hard" -> 350
                          [] OTHER -> 0
        base0 == (15 * sur.protectionism + 25 * rel.conflict_level + 25 * (Scale - rel.trust)) \div 100
        base == IF sur.same_block THEN (7 * base0) \div 10 ELSE base0
        desired ==
            IF sur.intent_level # "none" \/ sur.sanction_type \in {"mild", "strong"}
            THEN CASE sur.sanction_type = "strong" -> Max(base + intent_boost, 500)
                   [] sur.sanction_type = "mild" -> Max(base + intent_boost, 250)
                   [] OTHER -> base + intent_boost
            ELSE IF rel.trust < 250 \/ rel.conflict_level > 600 THEN (7 * base) \div 10 ELSE 0
    IN  [rel EXCEPT !.trade_barrier = clamp01((7 * rel.trade_barrier + 3 * clamp01(desired)) \div 10)]

\* apply_trade_barrier_effects for one relation
BarrierEffects(rel, sur) ==
    LET friction == (4 * clamp01(rel.conflict_level) + 2 * sur.avg_tension) \div 100
        decay == (5 * rel.trade_barrier) \div 100 + friction
    IN  [rel EXCEPT !.trade_intensity = Max(0, Mul(rel.trade_intensity, Scale - decay))]

\* TradeOrg and SecurityOrg measures of an organisation both agents are members of
ReduceBarrier(rel, legitimacy) ==
    IF rel.trade_barrier <= 0 THEN rel
    ELSE [rel EXCEPT !.trade_barrier = Max(0, rel.trade_barrier - legitimacy \div 100)]

Mediation(rel, legitimacy) ==
    IF rel.conflict_level < 250 THEN rel
    ELSE [rel EXCEPT !.conflict_level = Max(0, rel.conflict_level - legitimacy \div 100)]

\* lines 240-245 of apply_trade_deals for a deal of the given real volume
DealIntensity(rel, volume_real) == [rel EXCEPT !.trade_intensity = rel.trade_intensity + volume_real \div 100]
VolumeGrid == {100, 5000}

\* trade_conflict of an actor whose only relation is rel
TradeConflict(rel) == IF Max(0, rel.trade_intensity) > 0 THEN rel.conflict_level ELSE 0

\* update_relations_endogenous for one relation; other is the opposite one
RelationDrift(rel, other, sur) ==
    LET trade_gap == rel.trade_intensity - 500
        trade_short == Max(0, 500 - rel.trade_intensity)
        sanction_flag == IF sur.sanction_type # "absent" THEN Scale ELSE 0
        barrier == clamp01(rel.trade_barrier)
        propagation == (3 * (TradeConflict(rel) + TradeConflict(other))) \div 100
        block_rivalry == IF sur.rival_blocks THEN (4 * rel.conflict_level) \div 100 ELSE 0
        mediation == (3 * sur.security_legitimacy * (IF sur.shared_security THEN 16 ELSE 10)) \div 1000
        conflict_drift == (2 * (100 - rel.conflict_level)) \div 100
        conflict_push == Max(0, (4 * trade_short + 5 * sur.avg_tension + 6 * sur.mil_gap
                                 + 4 * barrier + 3 * sanction_flag) \div 100
                                + propagation + block_rivalry - mediation)
        conflict_level == clamp01(rel.conflict_level + conflict_drift + conflict_push)
        trust_drift == (2 * (600 - rel.trust)) \div 100
        trust_push == (4 * trade_gap - 5 * conflict_level - 4 * sur.avg_tension
                       - 5 * barrier - 3 * sanction_flag) \div 100 + mediation \div 2
    IN  [rel EXCEPT !.conflict_level = conflict_level,
                    !.trust = clamp01(rel.trust + trust_drift + trust_push)]

\* a directed relation as the factory builds it, and two at the ends of the ranges
PairGrid ==
    { [trade_intensity |-> 500, trust |-> 600, conflict_level |-> 100, trade_barrier |-> 0],
      [trade_intensity |-> 0, trust |-> 0, conflict_level |-> 1000, trade_barrier |-> 1000],
      [trade_intensity |-> 2000, trust |-> 1000, conflict_level |-> 0, trade_barrier |-> 0] }

PairInit ==
    /\ \E at \in PairGrid, ta \in PairGrid : relations = (Pair :> at) @@ (Back :> ta)
    /\ agents = <<>>
    /\ war_started = {}

\* one more phase function has run on the pair
PairCalled(after) ==
    /\ calls < MaxPairCalls
    /\ calls' = calls + 1
    /\ relations' = after
    /\ UNCHANGED <<time, agents, war_started, last_step, sancVars, finVars, climVars, runVars, obsVars>>

\* F applied to both directed relations
Both(F(_)) == [p \in DOMAIN relations |-> F(relations[p])]

SanctionRelationCall ==
    \E p \in {Pair, Back}, type \in {"mild", "strong"} :
        PairCalled([relations EXCEPT ![p] = SanctionRelation(@, type)])
SecurityRelationCall == \E type \in SecurityTypes : PairCalled(Both(LAMBDA r : SecurityRelation(r, type)))
WarRelationCall == \E course \in WarCourses : PairCalled(Both(LAMBDA r : WarRelation(r, course)))
TradeBarrierCall == \E sur \in PairSurroundings : PairCalled(Both(LAMBDA r : TradeBarrier(r, sur)))
BarrierEffectsCall == \E sur \in PairSurroundings : PairCalled(Both(LAMBDA r : BarrierEffects(r, sur)))
ReduceBarrierCall == \E l \in LegitimacyGrid : PairCalled(Both(LAMBDA r : ReduceBarrier(r, l)))
MediationCall == \E l \in LegitimacyGrid : PairCalled(Both(LAMBDA r : Mediation(r, l)))
DealCall == \E v \in VolumeGrid : PairCalled(Both(LAMBDA r : DealIntensity(r, v)))
RelationDriftCall ==
    \E sur \in PairSurroundings :
        PairCalled((Pair :> RelationDrift(relations[Pair], relations[Back], sur))
                   @@ (Back :> RelationDrift(relations[Back], relations[Pair], sur)))

PairNext ==
    \/ SanctionRelationCall
    \/ SecurityRelationCall
    \/ WarRelationCall
    \/ TradeBarrierCall
    \/ BarrierEffectsCall
    \/ ReduceBarrierCall
    \/ MediationCall
    \/ DealCall
    \/ RelationDriftCall

PairSpecInit == time = 0 /\ PairInit /\ SancInit /\ FinIdle /\ AuxIdle /\ ObsIdle /\ RunIdle /\ ClimIdle
SpecRelationRange == PairSpecInit /\ [][PairNext]_vars

\* C6: whatever functions of the step have run (sanction effects, security
\* actions, war continuation and end, trade-barrier update and effects,
\* institution measures, trade deals, endogenous drift), every directed
\* relation has trust, conflict_level and trade_barrier in [0,1] and
\* trade_intensity >= 0.
C6_BoundedRelationFields ==
    \A p \in DOMAIN relations :
        /\ Unit(relations[p].trust)
        /\ Unit(relations[p].conflict_level)
        /\ Unit(relations[p].trade_barrier)
        /\ relations[p].trade_intensity >= 0

\* a relation that started with no trade has traded, and later writes have
\* left its conflict_level and trade_barrier at the top of the range
C6_Witness ==
    /\ calls = MaxPairCalls
    /\ relations[Pair].trade_intensity > 0
    /\ relations[Pair].trust = 0
    /\ relations[Pair].conflict_level = Scale
    /\ relations[Pair].trade_barrier = Scale

----------------------------------------------------------------------------
(* step_world as one action: the policy loop with its fallback, the         *)
(* political filter, and the phases that write the agent and relation       *)
(* fields above, in the order of the code, for the world of A and B.  An    *)
(* exception leaves the world as the phases before it made it.  What the    *)
(* phases read outside these fields (sanctions in force, the course of a    *)
(* war, the random draws) comes with the step's surroundings.               *)

Ghost == "Z"    \* an id that is no key of world.agents

\* what a policy returns: agent_id and security target are "self", "other", "ghost" or "none"
PolicyReturns ==
    { [kind |-> "returns", agent_id |-> "self", tax_fuel_change |-> 0, social_spending_change |-> 0,
       military_spending_change |-> 0, rd_investment_change |-> 0, climate_policy |-> "none",
       security_type |-> "none", security_target |-> "none"],
      [kind |-> "returns", agent_id |-> "self", tax_fuel_change |-> 5000, social_spending_change |-> 1000,
       military_spending_change |-> 1000, rd_investment_change |-> 1000, climate_policy |-> "strong",
       security_type |-> "conflict", security_target |-> "other"],
      [kind |-> "returns", agent_id |-> "other", tax_fuel_change |-> -5000, social_spending_change |-> -1000,
       military_spending_change |-> 0, rd_investment_change |-> 0, climate_policy |-> "weak",
       security_type |-> "border_incident", security_target |-> "ghost"],
      [kind |-> "returns", agent_id |-> "ghost", tax_fuel_change |-> 0, social_spending_change |-> 20,
       military_spending_change |-> 0, rd_investment_change |-> 0, climate_policy |-> "none",
       security_type |-> "none", security_target |-> "none"] }

\* a policy is missing from the dict, raises, or returns
NoPolicy == [kind |-> "absent"]
Raises == [kind |-> "raises"]
PolicyOutcomes == {NoPolicy, Raises} \cup PolicyReturns

\* no entry of the actions dict
NoAction == [kind |-> "absent"]

Named(actor_id, who) ==
    CASE who = "self" -> actor_id
      [] who = "other" -> Other(actor_id)
      [] who = "ghost" -> Ghost
      [] OTHER -> "none"

\* the Action a returning policy builds for the observation of actor_id
Returned(actor_id, now, ret) ==
    [ret EXCEPT !.kind = "action",
                !.agent_id = Named(actor_id, ret.agent_id),
                !.security_target = Named(actor_id, ret.security_target)] @@ [time |-> now]

simple_rule_based_policy(actor_id, now, gdp_pc) ==
    [kind |-> "action", agent_id |-> actor_id, time |-> now,
     tax_fuel_change |-> 0, social_spending_change |-> 0, military_spending_change |-> 0,
     rd_investment_change |-> IF gdp_pc > 30000 THEN 2 ELSE IF gdp_pc > 10000 THEN 3 ELSE 1,
     climate_policy |-> "none", security_type |-> "none", security_target |-> "none"]

\* the try/except of the policy loop
PolicyCall(actor_id, now, gdp_pc, outcome) ==
    IF outcome.kind = "raises" THEN simple_rule_based_policy(actor_id, now, gdp_pc)
    ELSE Returned(actor_id, now, outcome)

apply_political_constraints(action, agent) ==
    LET scale == 400 + (6 * clamp01(agent.policy_space)) \div 10
        fuel == IF action.tax_fuel_change > 0
                THEN Mul(action.tax_fuel_change, Max(200, Scale - (7 * agent.protest_pressure) \div 10))
                ELSE action.tax_fuel_change
        silenced == agent.protest_pressure > 700 /\ agent.legitimacy < 400
    IN  [action EXCEPT !.tax_fuel_change = Mul(fuel, scale),
                       !.social_spending_change = Mul(action.social_spending_change, scale),
                       !.military_spending_change = Mul(action.military_spending_change, scale),
                       !.rd_investment_change = Mul(action.rd_investment_change, scale),
                       !.security_type = IF silenced THEN "none" ELSE @,
                       !.security_target = IF silenced THEN "none" ELSE @]

\* lines 275-295: the actions dict, and the actions as chosen before the filter
PolicyLoop(w, now, policies, env) ==
    LET chosen == [a \in Agents |->
                      IF policies[a].kind = "absent" THEN NoAction
                      ELSE PolicyCall(a, now, env.sur.gdp_per_capita, policies[a])]
    IN  [chosen |-> chosen,
         actions |-> [a \in Agents |->
                         IF chosen[a].kind = "absent" THEN NoAction
                         ELSE IF env.apply_political_filters
                              THEN apply_political_constraints(chosen[a], w.agents[a])
                              ELSE chosen[a]]]

OnAgents(w, F(_)) == [w EXCEPT !.agents = [a \in DOMAIN w.agents |-> F(w.agents[a])]]
OnRelations(w, F(_)) == [w EXCEPT !.relations = [p \in DOMAIN w.relations |-> F(w.relations[p])]]

\* lines 269-273: update_political_states and update_institutions
BeforePolicies(w, env) ==
    LET l == env.psur.security_legitimacy
        w1 == OnAgents(w, LAMBDA a : update_political_state(a, env.sur))
    IN  IF ~env.apply_institutions THEN w1
        ELSE Then(OnAgents(w1, LAMBDA a : ClimateAdaptation(SocialSupport(a, l), l)),
                  LAMBDA w2 : OnRelations(w2, LAMBDA r : Mediation(ReduceBarrier(r, l), l)))

\* apply_security_actions for one action of the dict
SecurityAction(w, action) ==
    IF action.kind = "absent" THEN w
    ELSE LET actor_id == action.agent_id
             target_id == action.security_target
         IN
        IF \/ action.security_type = "none"
           \/ target_id \notin Agents \/ actor_id \notin Agents \/ target_id = actor_id
        THEN w
        ELSE LET at == w.relations[<<actor_id, target_id>>]
                 ta == w.relations[<<target_id, actor_id>>]
                 type == GateType(action.security_type, at.conflict_level + ta.conflict_level, at.trust)
                 w1 == OnRelations(w, LAMBDA r : SecurityRelation(r, type))
             IN  IF type \in {"border_incident", "conflict"}
                 THEN OnAgents(w1, LAMBDA a : WarSociety(a, type))
                 ELSE w1

SurOf(regime_type) == CHOOSE sur \in Surroundings : sur.regime_type = regime_type
PairSurOf(intent_level) == CHOOSE psur \in PairSurroundings : psur.intent_level = intent_level

\* the arguments of step_world and what its phases read outside the slice's fields:
\* course is what update_active_conflicts finds for the pair, event and shock whether
\* A has an extreme event and a debt crisis this step
StepGrid ==
    { [sur |-> SurOf("Autocracy"), psur |-> PairSurOf("none"), course |-> "peace",
       event |-> FALSE, shock |-> FALSE, apply_political_filters |-> TRUE, apply_institutions |-> TRUE],
      [sur |-> SurOf("Democracy"), psur |-> PairSurOf("hard"), course |-> "continues",
       event |-> TRUE, shock |-> TRUE, apply_political_filters |-> TRUE, apply_institutions |-> TRUE],
      [sur |-> SurOf("Hybrid"), psur |-> PairSurOf("soft"), course |-> "tired",
       event |-> FALSE, shock |-> FALSE, apply_political_filters |-> FALSE, apply_institutions |-> FALSE],
      [sur |-> SurOf("Hybrid"), psur |-> PairSurOf("none"), course |-> "decided",
       event |-> TRUE, shock |-> FALSE, apply_political_filters |-> TRUE, apply_institutions |-> FALSE] }

\* apply_sanctions_effects for the sanction of A on B that is in force
SanctionEffects(w, env) ==
    LET type == env.psur.sanction_type
    IN  [w EXCEPT !.relations[Pair] = SanctionRelation(@, type),
                  !.agents["B"] = SanctionPressure(@, env.sur, IF type = "mild" THEN 1 ELSE 0,
                                                   IF type = "strong" THEN 1 ELSE 0)]

\* update_active_conflicts for the pair: A is the winner of a decided war
ActiveConflict(w, course) ==
    IF course = "peace" THEN w
    ELSE LET w1 == OnRelations(w, LAMBDA r : WarRelation(r, course))
         IN  CASE course = "tired" -> OnAgents(w1, LAMBDA a : WarSociety(a, "tired"))
               [] course = "decided" -> [w1 EXCEPT !.agents["A"] = WarSociety(@, "won"),
                                                   !.agents["B"] = WarSociety(@, "lost")]
               [] OTHER -> w1

\* lines 297-301: resolve_foreign_policy to apply_trade_barrier_effects
BeforeActions(w, actions, env) ==
    Then(Then(Then(Then(Then(OnRelations(w, LAMBDA r : TradeBarrier(r, env.psur)),
                             LAMBDA w1 : SanctionEffects(w1, env)),
                        LAMBDA w2 : SecurityAction(w2, actions["A"])),
                   LAMBDA w3 : SecurityAction(w3, actions["B"])),
              LAMBDA w4 : ActiveConflict(w4, env.course)),
         LAMBDA w5 : OnRelations(w5, LAMBDA r : BarrierEffects(r, env.psur)))

\* lines 303-304 for one entry of the dict: world.agents[action.agent_id] raises KeyError
ApplyOne(acc, action, sur) ==
    IF acc.raised \/ action.kind = "absent" THEN acc
    ELSE IF action.agent_id \notin DOMAIN acc.world.agents
         THEN [acc EXCEPT !.raised = TRUE]
         ELSE [acc EXCEPT !.world.agents[action.agent_id] = apply_action(@, sur, action)]

ApplyActions(w, actions, sur) ==
    Then(ApplyOne([world |-> w, raised |-> FALSE], actions["A"], sur),
         LAMBDA acc : ApplyOne(acc, actions["B"], sur))

\* lines 329-333 for one agent
SocialPhase(agent, action, env) ==
    check_regime_stability(
        IF action.kind = "absent" THEN agent
        ELSE update_social_state(agent, env.sur,
                                 _normalize_domestic_levers(action, env.sur).social_spending_change))

\* lines 306-336: the policies of the grid propose no trade deal
AfterActions(w, actions, env) ==
    Then(Then(Then([w EXCEPT !.relations =
                       (Pair :> RelationDrift(w.relations[Pair], w.relations[Back], env.psur))
                       @@ (Back :> RelationDrift(w.relations[Back], w.relations[Pair], env.psur))],
                   LAMBDA w1 : OnAgents(w1, LAMBDA a : update_climate_risks(a, env.sur))),
              LAMBDA w2 : [w2 EXCEPT !.agents["A"] =
                              IF env.shock THEN DebtShock(IF env.event THEN ExtremeEvent(@, env.sur) ELSE @)
                              ELSE IF env.event THEN ExtremeEvent(@, env.sur) ELSE @]),
         LAMBDA w3 : [w3 EXCEPT !.agents = [a \in Agents |-> SocialPhase(w3.agents[a], actions[a], env)]])

StepInit ==
    /\ \E row \in SocietyGrid :
          agents = [a \in Agents |-> RangeAgent(IF a = "A" THEN row ELSE
                                                   CHOOSE r \in SocietyGrid : r.trust_gov = 500,
                                                SurOf("Hybrid"))]
    /\ \E rel \in PairGrid : relations = (Pair :> rel) @@ (Back :> rel)
    /\ war_started = {}

step_world ==
    /\ calls < MaxStepCalls
    /\ \E env \in StepGrid, policies \in [Agents -> PolicyOutcomes] :
       \E w0 \in {BeforePolicies([agents |-> agents, relations |-> relations], env)} :
       \E loop \in {PolicyLoop(w0, time, policies, env)} :
       \E w1 \in {BeforeActions(w0, loop.actions, env)} :
       \E applied \in {ApplyActions(w1, loop.actions, env.sur)} :
       \E w2 \in {IF applied.raised THEN applied.world
                  ELSE AfterActions(applied.world, loop.actions, env)} :
           /\ agents' = w2.agents
           /\ relations' = w2.relations
           /\ time' = IF applied.raised THEN time ELSE time + 1
           /\ last_step' = [result |-> IF applied.raised THEN "raised" ELSE "completed",
                            policies |-> policies, chosen |-> loop.chosen,
                            gdp_per_capita |-> env.sur.gdp_per_capita,
                            pre_agents |-> agents, pre_relations |-> relations, pre_time |-> time]
    /\ calls' = calls + 1
    /\ UNCHANGED <<war_started, sancVars, finVars, climVars, runVars, obsVars>>

StepSpecInit == time = 0 /\ StepInit /\ SancInit /\ FinIdle /\ AuxIdle /\ ObsIdle /\ RunIdle /\ ClimIdle
SpecStep == StepSpecInit /\ [][step_world]_vars

\* the policy of X raised in the last step
Raised(X) == last_step.result # "none" /\ last_step.policies[X].kind = "raises"

\* C8, as the claim states it: if the policy of X raises, the action chosen
\* for X is simple_rule_based_policy's for X's observation, every other agent
\* whose policy returned has the action it returned, and the step completes
\* with time advanced.
C8_AsStated ==
    \A X \in Agents :
        Raised(X) =>
            /\ last_step.chosen[X] =
                  simple_rule_based_policy(X, last_step.pre_time, last_step.gdp_per_capita)
            /\ \A Y \in Agents \ {X} :
                  last_step.policies[Y].kind = "returns" =>
                      last_step.chosen[Y] = Returned(Y, last_step.pre_time, last_step.policies[Y])
            /\ last_step.result = "completed"
            /\ time = last_step.pre_time + 1

\* C9, as the claim states it: whatever Actions the policies return,
\* step_world returns without raising.
C9_AsStated == last_step.result # "raised"

\* C10, as the claim states it: a step_world call either completes with time
\* advanced by exactly 1 or leaves the world equal to the world before it.
C10_AsStated ==
    /\ last_step.result = "completed" => time = last_step.pre_time + 1
    /\ last_step.result = "raised" =>
          /\ agents = last_step.pre_agents
          /\ relations = last_step.pre_relations
          /\ time = last_step.pre_time

----------------------------------------------------------------------------
(* Lookups of the interaction phases: three agents A, B, C whose directed    *)
(* relations may be missing, and the id Z that is no agent.  relations is    *)
(* the nested dict flattened: <<a, b>> is a key when world.relations[a][b]   *)
(* exists.  Money and volumes are in thousandths.                            *)

Has(w, a, b) == <<a, b>> \in DOMAIN w.relations

\* one export deal of apply_trade_deals at the fair price 1.0: the transfer of
\* lines 201-217, then the relation update of lines 240-245
TradeDealOne(acc, initiator_id, deal) ==
    LET w == acc.world
        partner_id == deal.partner
    IN  IF acc.raised \/ partner_id \notin DOMAIN w.agents THEN acc
        ELSE LET initiator == w.agents[initiator_id]
                 partner == w.agents[partner_id]
                 export_capacity == Max(0, initiator.production - initiator.consumption)
                 volume_real == Min(Min(Max(0, deal.volume_change), export_capacity),
                                    Max(0, partner.fx_reserves))
             IN  IF Max(0, deal.volume_change) <= 0 \/ export_capacity <= 0 \/ volume_real <= 0 THEN acc
                 ELSE LET paid == [w EXCEPT
                                      !.agents[partner_id].consumption = @ + volume_real,
                                      !.agents[partner_id].fx_reserves = @ - volume_real,
                                      !.agents[initiator_id].fx_reserves = @ + volume_real]
                      IN  IF ~Has(w, initiator_id, partner_id) THEN [acc EXCEPT !.world = paid]
                          ELSE IF ~Has(w, partner_id, initiator_id)
                               THEN [world |-> paid, raised |-> TRUE]   \* KeyError
                               ELSE [acc EXCEPT !.world =
                                        [paid EXCEPT
                                            !.relations[<<initiator_id, partner_id>>] =
                                                DealIntensity(@, volume_real),
                                            !.relations[<<partner_id, initiator_id>>] =
                                                DealIntensity(@, volume_real)]]

RECURSIVE TradeDealsFrom(_, _, _)
TradeDealsFrom(acc, initiator_id, deals) ==
    IF deals = <<>> THEN acc
    ELSE TradeDealsFrom(Then(acc, LAMBDA x : TradeDealOne(x, initiator_id, Head(deals))),
                        initiator_id, Tail(deals))

\* apply_trade_deals for the deals of one initiator
apply_trade_deals(w, initiator_id, deals) ==
    TradeDealsFrom([world |-> w, raised |-> FALSE], initiator_id, deals)

\* apply_sanctions_effects for the active_sanctions of one actor (target -> type):
\* the entries loop of lines 55-69, then the pressure loop of lines 70-95
SanctionsOf(w, actor_id, sanctions) ==
    LET entries == {t \in DOMAIN sanctions : t \in DOMAIN w.agents /\ t # actor_id}
        related == {t \in entries : Has(w, actor_id, t)}
        strong == {t \in related : sanctions[t] = "strong"}
        penalty(t) == IF sanctions[t] = "strong" THEN 30 ELSE IF sanctions[t] = "mild" THEN 10 ELSE 0
        actor_gdp(n) == IF n = 0 THEN w.agents[actor_id].gdp
                        ELSE (995 * (IF n = 1 THEN w.agents[actor_id].gdp
                                     ELSE (995 * w.agents[actor_id].gdp) \div 1000)) \div 1000
    IN  [agents |-> [a \in DOMAIN w.agents |->
                        IF a = actor_id THEN [w.agents[a] EXCEPT !.gdp = actor_gdp(Cardinality(strong))]
                        ELSE IF a \in entries /\ penalty(a) > 0
                        THEN [SanctionPressure(w.agents[a], SurOf("Hybrid"),
                                               IF sanctions[a] = "mild" THEN 1 ELSE 0,
                                               IF sanctions[a] = "strong" THEN 1 ELSE 0)
                                 EXCEPT !.gdp = Mul(@, Scale - penalty(a))]
                        ELSE w.agents[a]],
         relations |-> [p \in DOMAIN w.relations |->
                           IF p[1] = actor_id /\ p[2] \in related
                           THEN SanctionRelation(w.relations[p], sanctions[p[2]])
                           ELSE w.relations[p]]]

\* apply_security_actions for one explicit action of actor_id
SecurityOf(w, actor_id, type, target_id) ==
    IF \/ target_id \notin DOMAIN w.agents \/ actor_id \notin DOMAIN w.agents
       \/ ~Has(w, actor_id, target_id) \/ ~Has(w, target_id, actor_id)
    THEN w
    ELSE LET at == w.relations[<<actor_id, target_id>>]
             ta == w.relations[<<target_id, actor_id>>]
             gated == GateType(type, at.conflict_level + ta.conflict_level, at.trust)
             sides == {actor_id, target_id}
         IN  [agents |-> [a \in DOMAIN w.agents |->
                             IF a \in sides /\ gated = "border_incident"
                             THEN [WarSociety(w.agents[a], gated) EXCEPT !.gdp = (99 * @) \div 100]
                             ELSE IF a = actor_id /\ gated = "arms_buildup"
                             THEN [w.agents[a] EXCEPT !.military_power = (105 * @) \div 100]
                             ELSE w.agents[a]],
              relations |-> [p \in DOMAIN w.relations |->
                                IF p \in {<<actor_id, target_id>>, <<target_id, actor_id>>}
                                THEN SecurityRelation(w.relations[p], gated)
                                ELSE w.relations[p]]]

\* the same handlers after the interactions that cannot be resolved are taken out
Resolvable(w, a, b) == b \in DOMAIN w.agents /\ Has(w, a, b) /\ Has(w, b, a)

deals_skipping(w, initiator_id, deals) ==
    apply_trade_deals(w, initiator_id,
                      SelectSeq(deals, LAMBDA d : Resolvable(w, initiator_id, d.partner))).world

sanctions_skipping(w, actor_id, sanctions) ==
    SanctionsOf(w, actor_id,
                [t \in {x \in DOMAIN sanctions : x \in DOMAIN w.agents /\ Has(w, actor_id, x)}
                    |-> sanctions[t]])

LookupAgent ==
    [gdp |-> 1000, fx_reserves |-> 100, production |-> 150000, consumption |-> 100000,
     military_power |-> 1000, trust_gov |-> 500, social_tension |-> 200]
LookupRelation == [trade_intensity |-> 500, trust |-> 600, conflict_level |-> 100, trade_barrier |-> 0]
LookupPairs == {p \in WarAgents \X WarAgents : p[1] # p[2]}
MissingGrid == SUBSET {<<"A", "B">>, <<"B", "A">>, <<"A", "C">>}

LookupInit ==
    /\ agents = [a \in WarAgents |-> LookupAgent]
    /\ \E missing \in MissingGrid : relations = [p \in LookupPairs \ missing |-> LookupRelation]
    /\ war_started = {}

DealGrid ==
    LET deal(p) == [partner |-> p, volume_change |-> 5000]
    IN  {<<deal(p)>> : p \in {"B", "C", Outsider}}
            \cup {<<deal(p), deal(q)>> : p \in {"B", Outsider}, q \in {"C"}}
SanctionGrid ==
    { ("B" :> "mild"), ("B" :> "strong"), ("B" :> "mild") @@ ("C" :> "strong"),
      (Outsider :> "strong") @@ ("C" :> "mild") }
LookupSecurityGrid ==
    {"military_exercise", "arms_buildup", "border_incident"} \X {"B", "C", Outsider}

\* one more handler has run: its outcome, and the world its resolvable interactions alone give
Looked(handler, raised, after, skipping) ==
    /\ calls < MaxLookupCalls
    /\ calls' = calls + 1
    /\ agents' = after.agents
    /\ relations' = after.relations
    /\ last_step' = [result |-> IF raised THEN "raised" ELSE "ok", handler |-> handler,
                     skip_agents |-> skipping.agents, skip_relations |-> skipping.relations]
    /\ UNCHANGED <<time, war_started, sancVars, finVars, climVars, runVars, obsVars>>

LookupWorld == [agents |-> agents, relations |-> relations]

TradeDealsCall ==
    \E deals \in DealGrid : \E out \in {apply_trade_deals(LookupWorld, "A", deals)} :
        Looked("apply_trade_deals", out.raised, out.world, deals_skipping(LookupWorld, "A", deals))

SanctionsEffectsCall ==
    \E sanctions \in SanctionGrid : \E out \in {SanctionsOf(LookupWorld, "A", sanctions)} :
        Looked("apply_sanctions_effects", FALSE, out, sanctions_skipping(LookupWorld, "A", sanctions))

SecurityActionsCall ==
    \E sec \in LookupSecurityGrid : \E out \in {SecurityOf(LookupWorld, "A", sec[1], sec[2])} :
        Looked("apply_security_actions", FALSE, out, out)

LookupNext == TradeDealsCall \/ SanctionsEffectsCall \/ SecurityActionsCall
LookupSpecInit == time = 0 /\ LookupInit /\ SancInit /\ FinIdle /\ AuxIdle /\ ObsIdle /\ RunIdle /\ ClimIdle
SpecLookup == LookupSpecInit /\ [][LookupNext]_vars

\* C11, as the claim states it: an interaction whose other agent or whose
\* directed relation is missing is skipped with no state change and no
\* exception, and the other interactions of the handler still run, so the
\* handler ends normally in the world its resolvable interactions alone give.
C11_AsStated ==
    last_step.result # "none" =>
        /\ last_step.result = "ok"
        /\ agents = last_step.skip_agents
        /\ relations = last_step.skip_relations

----------------------------------------------------------------------------
(* Credit risk of one agent.  The agent is reduced to the sub-scores that     *)
(* _credit_risk_components combines (each already normalised by the code),   *)
(* in thousandths.                                                           *)

\* the weights of the total with war relieving the score instead of adding to it
total_risk_score_war_relief(financial_risk, war_risk, social_risk, sanctions_risk, macro_risk) ==
    clamp01((250 * financial_risk - 200 * war_risk + 220 * social_risk
             + 130 * sanctions_risk + 200 * macro_risk) \div 1000)

total_risk_score(financial_risk, war_risk, social_risk, sanctions_risk, macro_risk) ==
    clamp01((250 * financial_risk + 200 * war_risk + 220 * social_risk
             + 130 * sanctions_risk + 200 * macro_risk) \div 1000)

_credit_risk_components(sub) ==
    LET financial_risk == clamp01((600 * sub.financial_now + 400 * sub.financial_next) \div 1000)
        war_risk == clamp01((600 * sub.at_war + 400 * sub.next_year_war_risk) \div 1000)
        social_sum == 550 * sub.next_year_revolution_risk + 300 * sub.structural_risk
                      + 150 * sub.collapsed_now - 200 * sub.management_strength
        \* a negative sum: the floor, as clamp01 gives 0 either way
        social_risk == clamp01(IF social_sum < 0 THEN 0 - 1 ELSE social_sum \div 1000)
        sanctions_risk == clamp01((550 * sub.sanction_now + 450 * sub.sanction_next) \div 1000)
        macro_risk == clamp01(sub.macro_sum)
    IN  [financial_risk |-> financial_risk, war_risk |-> war_risk, social_risk |-> social_risk,
         sanctions_risk |-> sanctions_risk, macro_risk |-> macro_risk,
         total_risk_score |->
             total_risk_score(financial_risk, war_risk, social_risk, sanctions_risk, macro_risk)]

RiskComponents == {"financial_risk", "war_risk", "social_risk", "sanctions_risk", "macro_risk"}

\* the sub-scores each component is made of, and the values the slice gives them
SubScoreGrid ==
    [financial_risk |-> [financial_now : {0, 500, 1000}, financial_next : {0, 1000}],
     war_risk |-> [at_war : {0, 1000}, next_year_war_risk : {0, 600}],
     social_risk |-> [next_year_revolution_risk : {0, 800}, structural_risk : {500},
                      collapsed_now : {0, 1000}, management_strength : {0, 1000}],
     sanctions_risk |-> [sanction_now : {0, 250}, sanction_next : {0, 700}],
     macro_risk |-> [macro_sum : {0, 450, 1000}]]

Flat(parts) ==
    [financial_now |-> parts.financial_risk.financial_now,
     financial_next |-> parts.financial_risk.financial_next,
     at_war |-> parts.war_risk.at_war,
     next_year_war_risk |-> parts.war_risk.next_year_war_risk,
     next_year_revolution_risk |-> parts.social_risk.next_year_revolution_risk,
     structural_risk |-> parts.social_risk.structural_risk,
     collapsed_now |-> parts.social_risk.collapsed_now,
     management_strength |-> parts.social_risk.management_strength,
     sanction_now |-> parts.sanctions_risk.sanction_now,
     sanction_next |-> parts.sanctions_risk.sanction_next,
     macro_sum |-> parts.macro_risk.macro_sum]

CreditInit ==
    /\ \E parts \in [RiskComponents -> UNION {SubScoreGrid[c] : c \in RiskComponents}] :
          /\ \A c \in RiskComponents : parts[c] \in SubScoreGrid[c]
          /\ agents = [a \in {Subject} |-> parts]
    /\ relations = <<>>
    /\ war_started = {}

\* the sub-scores of one component change and the agent is scored again
CreditRiskCall ==
    \E c \in RiskComponents : \E sub \in SubScoreGrid[c] :
        /\ sub # agents[Subject][c]
        /\ agents' = [agents EXCEPT ![Subject][c] = sub]
        /\ last_step' = [result |-> "scored", changed |-> c,
                         was |-> _credit_risk_components(Flat(agents[Subject])),
                         now |-> _credit_risk_components(Flat(agents'[Subject]))]
        /\ UNCHANGED <<time, relations, war_started, calls, sancVars, finVars, climVars, runVars, obsVars>>

CreditSpecInit == time = 0 /\ CreditInit /\ SancInit /\ FinIdle /\ AuxIdle /\ ObsIdle /\ RunIdle /\ ClimIdle
SpecCredit == CreditSpecInit /\ [][CreditRiskCall]_vars

\* C12: when one of the five components is higher than at the previous scoring
\* and the other four are the same, total_risk_score is not lower; every
\* component and the total lie in [0, 1].
C12_CreditMonotone ==
    LET now == _credit_risk_components(Flat(agents[Subject]))
    IN  /\ \A k \in RiskComponents \cup {"total_risk_score"} : now[k] \in 0..Scale
        /\ last_step.result = "scored" =>
              ((\E c \in RiskComponents :
                    /\ last_step.now[c] > last_step.was[c]
                    /\ \A d \in RiskComponents \ {c} : last_step.now[d] = last_step.was[d])
                => last_step.now.total_risk_score >= last_step.was.total_risk_score)

\* a component rose with the other four fixed, and the total rose with it
C12_Witness ==
    /\ last_step.result = "scored"
    /\ last_step.changed = "war_risk"
    /\ last_step.now.war_risk > last_step.was.war_risk
    /\ \A d \in RiskComponents \ {"war_risk"} : last_step.now[d] = last_step.was[d]
    /\ last_step.now.total_risk_score > last_step.was.total_risk_score
    /\ last_step.now.social_risk = 0

----------------------------------------------------------------------------
(* The rating scale: _risk_to_rating and rating_zone, as update_credit_ratings *)
(* stores them on the agent.                                                 *)

GREEN_MAX == 12
YELLOW_MAX == 20
RATING_MIN == 1
RATING_MAX == 26

\* Python's round() of thousandths / 1000: to the nearest integer, ties to even
PyRound(thousandths) ==
    LET q == thousandths \div Scale
        r == thousandths % Scale
    IN  IF r < 500 THEN q
        ELSE IF r > 500 THEN q + 1
        ELSE IF q % 2 = 0 THEN q ELSE q + 1

_risk_to_rating(risk_score) ==
    LET mapped == PyRound(RATING_MIN * Scale + clamp01(risk_score) * (RATING_MAX - RATING_MIN))
    IN  Max(RATING_MIN, Min(RATING_MAX, mapped))

\* the zones with the two limits excluded
rating_zone_strict(rating) ==
    IF rating < GREEN_MAX THEN "green" ELSE IF rating < YELLOW_MAX THEN "yellow" ELSE "red"

rating_zone(rating) ==
    IF rating <= GREEN_MAX THEN "green" ELSE IF rating <= YELLOW_MAX THEN "yellow" ELSE "red"

\* total risk scores from -0.1 to 1.1 in hundredths (what a caller may pass)
ScoreGrid == {10 * k - 100 : k \in 0..120}

Rated(score) ==
    [credit_risk_score |-> score,
     credit_rating |-> _risk_to_rating(score),
     credit_zone |-> rating_zone(_risk_to_rating(score))]

RatingInit ==
    /\ \E score \in ScoreGrid : agents = [a \in {Subject} |-> Rated(score)]
    /\ relations = <<>>
    /\ war_started = {}

\* update_credit_ratings for the subject, whose total risk score is now score
update_credit_ratings ==
    \E score \in ScoreGrid :
        /\ agents' = [agents EXCEPT ![Subject] = Rated(score)]
        /\ last_step' = [result |-> "rated", was |-> agents[Subject]]
        /\ UNCHANGED <<time, relations, war_started, calls, sancVars, finVars, climVars, runVars, obsVars>>

RatingSpecInit == time = 0 /\ RatingInit /\ SancInit /\ FinIdle /\ AuxIdle /\ ObsIdle /\ RunIdle /\ ClimIdle
SpecRating == RatingSpecInit /\ [][update_credit_ratings]_vars

\* C13: the stored rating is an integer in 1..26, a score higher than at the
\* previous rating never gives a lower rating, and the stored zone is green
\* exactly for ratings up to 12, yellow exactly for 13..20, red exactly above 20.
C13_RatingMapping ==
    LET agent == agents[Subject]
    IN  /\ agent.credit_rating \in 1..26
        /\ last_step.result = "rated" =>
              (agent.credit_risk_score > last_step.was.credit_risk_score
                  => agent.credit_rating >= last_step.was.credit_rating)
        /\ agent.credit_zone = "green" <=> agent.credit_rating <= 12
        /\ agent.credit_zone = "yellow" <=> agent.credit_rating \in 13..20
        /\ agent.credit_zone = "red" <=> agent.credit_rating > 20

\* a tie of the rounding (score 0.46 maps to 12.5, rounded to the even 12) is
\* rated after a lower score, at the upper limit of green
C13_Witness ==
    /\ last_step.result = "rated"
    /\ last_step.was.credit_risk_score = 420
    /\ agents[Subject].credit_risk_score = 460
    /\ agents[Subject].credit_rating = 12
    /\ agents[Subject].credit_zone = "green"

----------------------------------------------------------------------------
(* The carbon cycle of update_global_climate.  Stocks and emissions are in   *)
(* tenths of a GtCO2, fractions and decay factors in ten-thousandths.        *)

CO2_PREINDUSTRIAL_GT == 21840   \* 2184.0 Gt
CO2_STOCK_2023_GT == 32700      \* 3270.0 Gt
PoolScale == 10000
CARBON_POOL_FRACTIONS == <<2173, 2240, 2824, 2763>>
\* exp(-dt / tau) at dt = 1 for CARBON_POOL_TIMESCALES = (inf, 394.4, 36.54, 4.304);
\* the code takes 1.0 for a timescale that is not finite
CARBON_POOL_DECAYS == <<10000, 9975, 9730, 7927>>
PoolIndex == 1..4

no_decay(i) == PoolScale
decay(i) == CARBON_POOL_DECAYS[i]

_init_carbon_pools_signed(co2) ==
    [i \in PoolIndex |-> ((co2 - CO2_PREINDUSTRIAL_GT) * CARBON_POOL_FRACTIONS[i]) \div PoolScale]

_init_carbon_pools(co2) ==
    [i \in PoolIndex |-> (Max(0, co2 - CO2_PREINDUSTRIAL_GT) * CARBON_POOL_FRACTIONS[i]) \div PoolScale]

RECURSIVE SumSeq(_)
SumSeq(seq) == IF seq = <<>> THEN 0 ELSE Head(seq) + SumSeq(Tail(seq))

\* the pools the loop of lines 110-116 starts from
PoolsOf(gs) == IF Len(gs.carbon_pools) # 4 THEN _init_carbon_pools(gs.co2) ELSE gs.carbon_pools

update_global_climate(gs, total_emissions) ==
    LET pools == PoolsOf(gs)
        new_pools == [i \in PoolIndex |->
                         (pools[i] * decay(i)) \div PoolScale
                         + (CARBON_POOL_FRACTIONS[i] * total_emissions) \div PoolScale]
    IN  [co2 |-> Max(CO2_PREINDUSTRIAL_GT + SumSeq(new_pools), CO2_PREINDUSTRIAL_GT),
         carbon_pools |-> new_pools]

\* the stock a world is built with: the factory's, the baseline, one below the baseline
StockGrid == {CO2_STOCK_2023_GT, CO2_PREINDUSTRIAL_GT, 20000}
\* the sum of the agents' co2_annual_emissions, each of which the code keeps >= 0
EmissionGrid == {0, 400, 1000}

ClimateInit ==
    /\ \E co2 \in StockGrid : global_state = [co2 |-> co2, carbon_pools |-> <<>>]
    /\ agents = <<>> /\ relations = <<>> /\ war_started = {}

GlobalClimateCall ==
    \E total_emissions \in EmissionGrid :
        /\ calls < MaxClimateCalls
        /\ calls' = calls + 1
        /\ global_state' = update_global_climate(global_state, total_emissions)
        /\ last_step' = [result |-> "climate", total_emissions |-> total_emissions,
                         co2 |-> global_state.co2, pools |-> PoolsOf(global_state)]
        /\ UNCHANGED <<time, worldVars, sancVars, finVars, runVars, obsVars>>

ClimateSpecInit == time = 0 /\ ClimateInit /\ SancInit /\ FinIdle /\ AuxIdle /\ ObsIdle /\ RunIdle
SpecClimate == ClimateSpecInit /\ [][GlobalClimateCall]_vars

\* C14: after every update_global_climate call global co2 is the pre-industrial
\* baseline plus the sum of the carbon pools, and is not below the baseline.
C14_CO2Floor ==
    last_step.result = "climate" =>
        /\ global_state.co2 = CO2_PREINDUSTRIAL_GT + SumSeq(global_state.carbon_pools)
        /\ global_state.co2 >= CO2_PREINDUSTRIAL_GT

\* a world built below the baseline has had its first call, with emissions of 40 Gt
C14_Witness ==
    /\ calls = 1
    /\ last_step.result = "climate"
    /\ last_step.co2 < CO2_PREINDUSTRIAL_GT
    /\ last_step.total_emissions = 400
    /\ global_state.co2 \in (CO2_PREINDUSTRIAL_GT + 390)..(CO2_PREINDUSTRIAL_GT + 400)

\* C15, as the claim states it: in a call with zero total emissions each of the
\* four pools is multiplied by a factor strictly between 0 and 1, so a pool
\* that holds anything holds less afterwards.
C15_AsStated ==
    (last_step.result = "climate" /\ last_step.total_emissions = 0) =>
        \A i \in PoolIndex :
            /\ decay(i) \in 1..(PoolScale - 1)
            /\ last_step.pools[i] > 0 => global_state.carbon_pools[i] < last_step.pools[i]

\* C15, amended: in a call with zero total emissions the pools with the finite
\* timescales (the second, third and fourth) are multiplied by their factors
\* in (0, 1) and shrink, and the first pool, of infinite timescale, keeps its
\* value.
C15_PoolDecay ==
    (last_step.result = "climate" /\ last_step.total_emissions = 0) =>
        /\ \A i \in 2..4 :
              /\ decay(i) \in 1..(PoolScale - 1)
              /\ global_state.carbon_pools[i] = (last_step.pools[i] * decay(i)) \div PoolScale
              /\ last_step.pools[i] > 0 => global_state.carbon_pools[i] < last_step.pools[i]
        /\ global_state.carbon_pools[1] = last_step.pools[1]

\* two calls without emissions in a row from the factory's stock
C15_Witness ==
    /\ calls = 2
    /\ last_step.result = "climate"
    /\ last_step.total_emissions = 0
    /\ last_step.pools[1] = _init_carbon_pools(CO2_STOCK_2023_GT)[1]
    /\ last_step.pools[4] < _init_carbon_pools(CO2_STOCK_2023_GT)[4]
    /\ global_state.carbon_pools[4] < last_step.pools[4]
    /\ global_state.carbon_pools[1] > 0

----------------------------------------------------------------------------
(* run_simulation: the loop that snapshots the world and steps it.  A        *)
(* snapshot is a copy (a value of its own) or an alias of the live world;    *)
(* what a holder of the history reads from an entry is Deref of it.          *)

Live == [agents |-> agents, relations |-> relations, time |-> time]
Deref(entry) == IF entry.alias THEN Live ELSE entry.world

\* the list holding the world object itself
same_object(w) == [alias |-> TRUE, world |-> w]
\* copy.deepcopy(world)
deepcopy(w) == [alias |-> FALSE, world |-> w]

\* step_world_verbose: its own policy loop (policies[agent_id], the fallback, the
\* political filter), then step_world on the replayed actions with
\* apply_political_filters and apply_institutions off
step_world_verbose(w, policies, env) ==
    IF \E a \in Agents : policies[a].kind = "absent"
    THEN [world |-> w, raised |-> TRUE]   \* KeyError, before anything is written
    ELSE LET w0 == BeforePolicies(w, [env EXCEPT !.apply_institutions = TRUE])
             loop == PolicyLoop(w0, w.time, policies, [env EXCEPT !.apply_political_filters = TRUE])
             w1 == BeforePolicies(w0, [env EXCEPT !.apply_institutions = FALSE])
             w2 == BeforeActions(w1, loop.actions, env)
             applied == ApplyActions(w2, loop.actions, env.sur)
         IN  IF applied.raised THEN [world |-> applied.world, raised |-> TRUE]
             ELSE [world |-> [AfterActions(applied.world, loop.actions, env)
                                 EXCEPT !.time = w.time + 1],
                   raised |-> FALSE]

\* the policies dict of a run: what each agent's policy does when called
RunPolicies ==
    LET good == CHOOSE r \in PolicyReturns : r.agent_id = "self" /\ r.security_type = "conflict"
        quiet == CHOOSE r \in PolicyReturns : r.agent_id = "self" /\ r.security_type = "none"
        ghost == CHOOSE r \in PolicyReturns : r.agent_id = "ghost"
    IN  { [a \in Agents |-> good], [a \in Agents |-> IF a = "A" THEN Raises ELSE quiet],
          [a \in Agents |-> IF a = "A" THEN quiet ELSE ghost],
          [a \in Agents |-> IF a = "A" THEN NoPolicy ELSE quiet] }

RunInit ==
    /\ time \in {0, 5}
    /\ StepInit
    /\ history = <<>>
    /\ \E years \in 0..MaxYears :
          run = [status |-> "running", years |-> years, left |-> years, t0 |-> time]

\* one pass of the loop of lines 486-495
RunYear ==
    /\ run.status = "running" /\ run.left > 0
    /\ \E env \in StepGrid, policies \in RunPolicies :
       \E out \in {step_world_verbose(Live, policies, env)} :
          /\ agents' = out.world.agents
          /\ relations' = out.world.relations
          /\ time' = out.world.time
          /\ history' = IF out.raised THEN <<>> ELSE Append(history, deepcopy(Live))
          /\ run' = [run EXCEPT !.status = IF out.raised THEN "raised" ELSE "running",
                                !.left = @ - 1]
    /\ UNCHANGED <<war_started, sancVars, finVars, auxVars, climVars, obsVars>>

\* lines 497-498 after the loop
RunReturn ==
    /\ run.status = "running" /\ run.left = 0
    /\ history' = Append(history, deepcopy(Live))
    /\ run' = [run EXCEPT !.status = "returned"]
    /\ UNCHANGED <<time, worldVars, sancVars, finVars, auxVars, climVars, obsVars>>

RunNext == RunYear \/ RunReturn
RunSpecInit == RunInit /\ SancInit /\ FinIdle /\ AuxIdle /\ ObsIdle /\ ClimIdle
SpecRun == RunSpecInit /\ [][RunNext]_vars

\* C16: a run_simulation call of N years that returns returns N+1 snapshots;
\* the snapshots read t0, t0+1, ... in order, each is the world as it was when
\* taken (no later step has changed it), and the last is the world returned.
C16_HistorySnapshots ==
    /\ run.status = "returned" =>
          /\ Len(history) = run.years + 1
          /\ Deref(history[Len(history)]) = Live
    /\ run.status \in {"running", "returned"} =>
          \A i \in 1..Len(history) :
              /\ Deref(history[i]).time = run.t0 + i - 1
              /\ Deref(history[i]) = history[i].world

\* a run of two years has returned three snapshots, and the two steps changed the world
C16_Witness ==
    /\ run.status = "returned" /\ run.years = 2
    /\ Len(history) = 3
    /\ history[1].world.agents # history[2].world.agents
    /\ history[2].world.agents # agents
    /\ history[1].world.time = 5 /\ time = 7

----------------------------------------------------------------------------
(* build_observation and what a policy can reach through the Observation.    *)
(* Each part of the Observation is a copy (a value of its own) or a shared   *)
(* object of the WorldState, named by its path; a write to a shared part is  *)
(* a write to the world.                                                     *)

Copied(value) == [shared |-> FALSE, value |-> value, written |-> FALSE]
Shared(path) == [shared |-> TRUE, path |-> path]

\* dataclasses.asdict: dicts and lists are rebuilt, leaves are deep-copied
asdict(value) == Copied(value)

ObsWorld ==
    [agents |-> agents, relations |-> relations, global_state |-> global_state,
     institutions |-> institutions, institution_reports |-> institution_reports]

build_observation(w, agent_id) ==
    [kind |-> "built", agent_id |-> agent_id, time |-> time, world |-> w,
     parts |->
        (<<"self_state">> :> asdict(w.agents[agent_id]))
        @@ (<<"resource_balance">> :> Copied(Max(0, w.agents[agent_id].consumption - w.agents[agent_id].production)))
        @@ (<<"neighbors">> :> Copied([p \in {q \in DOMAIN w.relations :
                                         q[1] = agent_id /\ q[2] \in DOMAIN w.agents}
                                 |-> w.relations[p] @@ [gdp |-> w.agents[p[2]].gdp]]))
        @@ (<<"global">> :> asdict(w.global_state))
        @@ (<<"institutions">> :> Copied([org \in DOMAIN w.institutions |->
                                            [legitimacy |-> w.institutions[org].legitimacy,
                                             members |-> Len(w.institutions[org].members)]]))
        @@ [part \in {<<"mandate", org>> : org \in DOMAIN w.institutions} |-> Shared(part)]
        @@ [part \in {<<"active_rules", org>> : org \in DOMAIN w.institutions} |-> Shared(part)]
        @@ [part \in IF w.institution_reports # <<>> THEN {<<"institution_reports">>} ELSE {}
               |-> Shared(part)]]

\* what the holder writes into a part
Tampered == "tampered"

\* the world after a write through a shared part
WrittenThrough(w, path) ==
    CASE path[1] = "mandate" ->
            [w EXCEPT !.institutions[path[2]].mandate = Append(@, Tampered)]
      [] path[1] = "active_rules" ->
            [w EXCEPT !.institutions[path[2]].active_rules = @ \cup {Tampered}]
      [] path[1] = "institution_reports" ->
            [w EXCEPT !.institution_reports = Append(@, Tampered)]

ObsOrg == "UN"
ObsAgent(gdp) == [gdp |-> gdp, production |-> 100, consumption |-> 150]
ObsInit ==
    /\ \E gdp \in {1000, 2000} : agents = [a \in Agents |-> ObsAgent(gdp)]
    /\ \E trust \in {200, 600} :
          relations = [p \in {<<"A", "B">>, <<"B", "A">>} |-> [trust |-> trust, conflict_level |-> 100]]
    /\ war_started = {}
    /\ \E co2 \in {CO2_PREINDUSTRIAL_GT, CO2_STOCK_2023_GT} :
          global_state = [co2 |-> co2, carbon_pools |-> <<>>]
    /\ \E orgs \in {{}, {ObsOrg}} :
          institutions = [org \in orgs |-> [legitimacy |-> 600, mandate |-> <<"peace">>,
                                            members |-> <<"A", "B">>, active_rules |-> {}]]
    /\ \E reports \in {<<>>, <<"report">>} : institution_reports = reports
    /\ debt_hist = <<>>
    /\ observation = [kind |-> "none"]

\* the policy loop builds the Observation of an agent
BuildObservation ==
    /\ observation.kind = "none"
    /\ \E agent_id \in Agents : observation' = build_observation(ObsWorld, agent_id)
    /\ UNCHANGED <<time, worldVars, sancVars, finVars, auxVars, climVars, runVars, institution_reports>>

\* the holder writes into one part of the Observation it has not written yet
MutateObservation ==
    /\ observation.kind = "built"
    /\ \E part \in DOMAIN observation.parts :
          IF observation.parts[part].shared
          THEN \E w \in {WrittenThrough(ObsWorld, observation.parts[part].path)} :
                  /\ Len(w.institution_reports) <= 2
                  /\ \A org \in DOMAIN w.institutions : Len(w.institutions[org].mandate) <= 2
                  /\ institutions' = w.institutions
                  /\ institution_reports' = w.institution_reports
                  /\ last_step' = [result |-> "written", part |-> part]
                  /\ UNCHANGED observation
          ELSE /\ ~observation.parts[part].written
               /\ observation' = [observation EXCEPT !.parts[part].written = TRUE]
               /\ last_step' = [result |-> "written", part |-> part]
               /\ UNCHANGED <<institutions, institution_reports>>
    /\ UNCHANGED <<time, worldVars, sancVars, debt_hist, calls, climVars, runVars>>

ObsNext == BuildObservation \/ MutateObservation
ObsSpecInit == time = 0 /\ ObsInit /\ SancInit /\ AuxIdle /\ RunIdle
SpecObservation == ObsSpecInit /\ [][ObsNext]_vars

\* C17, as the claim states it: whatever part of the Observation returned by
\* build_observation is written, the WorldState stays as it was when the
\* Observation was built.
C17_AsStated == observation.kind = "built" => ObsWorld = observation.world

----------------------------------------------------------------------------
(* The security phase of a step for A, B and C: the political filter on the  *)
(* policies' security actions, apply_security_actions with the auto-trigger, *)
(* update_active_conflicts.  last_step keeps what the policies proposed and  *)
(* one record per action that apply_security_actions applied.                *)

\* apply_political_constraints lines 99-101 for the agents whose protest
\* pressure is above 0.7 and legitimacy below 0.4
Silenced(secs, silenced) == [a \in WarAgents |-> IF a \in silenced THEN <<"none", "">> ELSE secs[a]]

\* the action SecurityOne applies for actor_id in w, if any: where it came
\* from, what the gate saw, and the type after the gate
SecurityRecord(w, actor_id, sec, auto) ==
    LET chosen == IF sec[1] = "none" THEN _auto_security_action(w, actor_id, auto) ELSE sec
        type == chosen[1]
        target_id == chosen[2]
    IN IF type = "none" \/ target_id \notin WarAgents \/ target_id = actor_id THEN <<>>
       ELSE LET conflict_sum == w.relations[<<actor_id, target_id>>].conflict_level
                                   + w.relations[<<target_id, actor_id>>].conflict_level
                trust == w.relations[<<actor_id, target_id>>].trust
            IN  << [actor |-> actor_id, target |-> target_id, auto |-> sec[1] = "none",
                    requested |-> type, conflict_sum |-> conflict_sum, trust |-> trust,
                    applied |-> GateType(type, conflict_sum, trust),
                    \* the two sides as the action found them
                    actor_before |-> w.agents[actor_id], target_before |-> w.agents[target_id],
                    at_war_before |-> w.relations[<<actor_id, target_id>>].at_war] >>

RECURSIVE SecurityTrace(_, _, _, _)
SecurityTrace(w, i, secs, autos) ==
    IF i > Len(WarOrder) THEN <<>>
    ELSE SecurityRecord(w, WarOrder[i], secs[WarOrder[i]], autos[WarOrder[i]])
            \o Then(SecurityOne(w, WarOrder[i], secs[WarOrder[i]], autos[WarOrder[i]]),
                    LAMBDA w1 : SecurityTrace(w1, i + 1, secs, autos))

\* <<conflict_level, trust>> of the pair A, B at the start
SecurityPairGrid == {FactoryRelation, HostileRelation, <<500, 200>>, <<450, 100>>}

SecurityInit ==
    /\ agents = [a \in WarAgents |-> BaseAgent(1000, 1000)]
    /\ war_started = {}
    /\ \E ab \in SecurityPairGrid, ac \in {FactoryRelation, HostileRelation} :
          relations = [p \in WarPairs |->
                          BaseRelation(IF {p[1], p[2]} = {"A", "B"} THEN ab
                                       ELSE IF {p[1], p[2]} = {"A", "C"} THEN ac
                                       ELSE FactoryRelation)]

\* what a step hands to the phase: the security_actions the policies return,
\* the agents the political filter silences, the auto-trigger's outcomes
SecurityInputs ==
    LET in(secs, silenced, autos) == [secs |-> secs, silenced |-> silenced, autos |-> autos]
        all(auto) == [a \in WarAgents |-> auto]
    IN  { in(NoSecurity, {}, NoAuto),
          in(NoSecurity, {}, all("border_incident")),
          in(NoSecurity, {}, [NoAuto EXCEPT !["A"] = "arms_buildup", !["B"] = "military_exercise"]),
          in([NoSecurity EXCEPT !["A"] = <<"conflict", "B">>], {}, NoAuto),
          in([NoSecurity EXCEPT !["A"] = <<"conflict", "B">>], {"A"}, all("border_incident")),
          in([NoSecurity EXCEPT !["A"] = <<"border_incident", "B">>, !["B"] = <<"conflict", "A">>],
             {}, NoAuto),
          in([NoSecurity EXCEPT !["A"] = <<"border_incident", "C">>], {}, all("border_incident")),
          in([NoSecurity EXCEPT !["B"] = <<"conflict", "A">>], {"B"}, NoAuto),
          in([NoSecurity EXCEPT !["C"] = <<"conflict", "A">>, !["B"] = <<"arms_buildup", "C">>],
             {}, NoAuto),
          in([NoSecurity EXCEPT !["A"] = <<"conflict", Outsider>>], {}, NoAuto) }

\* step_world lines 275-300 as far as security goes
SecurityStep ==
    /\ time < MaxSecurityTime
    /\ \E in \in SecurityInputs :
       \E w0 \in {[agents |-> agents, relations |-> relations]} :
       \E secs \in {Silenced(in.secs, in.silenced)} :
       \E w1 \in {apply_security_actions(w0, secs, in.autos)} :
       \E w2 \in {update_active_conflicts(w1)} :
           /\ agents' = w2.agents
           /\ relations' = w2.relations
           /\ war_started' = {p \in WarPairs : ~w0.relations[p].at_war /\ w1.relations[p].at_war}
           /\ last_step' = [result |-> "security", proposed |-> in.secs, silenced |-> in.silenced,
                            trace |-> SecurityTrace(w0, 1, secs, in.autos),
                            pre_relations |-> relations]
    /\ time' = time + 1
    /\ UNCHANGED <<calls, sancVars, finVars, climVars, runVars, obsVars>>

SecuritySpecInit == time = 0 /\ SecurityInit /\ SancInit /\ FinIdle /\ AuxIdle /\ ObsIdle /\ RunIdle /\ ClimIdle
SpecSecurity == SecuritySpecInit /\ [][SecurityStep]_vars

\* the relations whose at_war went from False to True in the last step
WarOnsets ==
    war_started \cup {p \in WarPairs : ~last_step.pre_relations[p].at_war /\ relations[p].at_war}

\* C18: a relation's at_war goes from False to True only in a step in which
\* one of the pair's agents proposed an explicit conflict action against the
\* other and that action was applied while the pair's average conflict_level
\* was >= 0.55 and the actor's trust in the target was <= 0.25; no action of
\* the auto-trigger is applied as a conflict.
C18_WarOnsetGate ==
    last_step.result = "security" =>
        /\ \A p \in WarOnsets :
              \E k \in 1..Len(last_step.trace) :
                  LET r == last_step.trace[k]
                  IN  /\ {r.actor, r.target} = {p[1], p[2]}
                      /\ ~r.auto
                      /\ last_step.proposed[r.actor] = <<"conflict", r.target>>
                      /\ r.applied = "conflict"
                      /\ r.conflict_sum >= 2 * GATE_CONFLICT
                      /\ r.trust <= GATE_TRUST
        /\ \A k \in 1..Len(last_step.trace) :
              last_step.trace[k].auto => last_step.trace[k].applied # "conflict"

\* B's conflict action starts a war with A after A's border incident of the
\* same step has raised the pair's level from below the gate to above it
C18_Witness ==
    /\ last_step.result = "security"
    /\ <<"B", "A">> \in war_started
    /\ ~last_step.pre_relations[<<"B", "A">>].at_war
    /\ relations[<<"B", "A">>].at_war
    /\ last_step.pre_relations[<<"B", "A">>].conflict_level < GATE_CONFLICT
    /\ Len(last_step.trace) = 2
    /\ last_step.trace[2].actor = "B" /\ last_step.trace[2].applied = "conflict"

\* C19, as the claim states it: whenever border_incident effects are applied
\* to a pair, the pair's average conflict level before the action is at least
\* 0.30.
C19_AsStated ==
    last_step.result = "security" =>
        \A k \in 1..Len(last_step.trace) :
            last_step.trace[k].applied = "border_incident"
                => last_step.trace[k].conflict_sum >= 2 * GATE_INCIDENT

\* C20, as the claim states it: an action of the auto-trigger is applied for
\* an agent only if the agent's policy proposed no security action in the step.
C20_AsStated ==
    last_step.result = "security" =>
        \A k \in 1..Len(last_step.trace) :
            last_step.trace[k].auto => last_step.proposed[last_step.trace[k].actor][1] = "none"

\* C21, as the claim states it: when a conflict action starts a war, the
\* war-start snapshot of each side's relation holds that side's gdp,
\* population and resource index as they were before the action's own losses.
C21_AsStated ==
    last_step.result = "security" =>
        \A k \in 1..Len(last_step.trace) :
            LET r == last_step.trace[k]
                at == relations[<<r.actor, r.target>>]
                ta == relations[<<r.target, r.actor>>]
            IN  (r.applied = "conflict" /\ ~r.at_war_before /\ at.at_war) =>
                    /\ at.war_start_gdp = r.actor_before.gdp
                    /\ at.war_start_pop = r.actor_before.population
                    /\ at.war_start_resource = _resource_index(r.actor_before)
                    /\ ta.war_start_gdp = r.target_before.gdp
                    /\ ta.war_start_pop = r.target_before.population
                    /\ ta.war_start_resource = _resource_index(r.target_before)

\* the war-start snapshot of a directed relation
WarStart(rel) == <<rel.war_start_gdp, rel.war_start_pop, rel.war_start_resource>>

\* C22: across a step in which a relation stays at war its war-start snapshot
\* does not change, whatever conflict actions and war continuation the step
\* holds; a relation at war has a snapshot that is not zero, and a relation
\* whose war has ended has the zero snapshot.
C22_SnapshotOnce ==
    [][\A p \in WarPairs :
          /\ (relations[p].at_war /\ relations'[p].at_war) => WarStart(relations'[p]) = WarStart(relations[p])
          /\ relations'[p].at_war => \A i \in 1..3 : WarStart(relations'[p])[i] > 0
          /\ ~relations'[p].at_war => WarStart(relations'[p]) = <<0, 0, 0>>]_vars

\* a war in its second year or later that the last step did not start: the
\* side's gdp has fallen below the snapshot taken at the onset
C22_Witness ==
    /\ relations[<<"A", "B">>].at_war
    /\ relations[<<"A", "B">>].war_years >= 2
    /\ relations[<<"A", "B">>].war_start_gdp > agents["A"].gdp
    /\ <<"A", "B">> \notin war_started

----------------------------------------------------------------------------
(* resolve_sanctions called on actions whose intents are recorded           *)

MaxResolveCalls == 2
ResolveBlockGrid == {"same", "different", "nonaligned"}
\* <<sanction_propensity, <<conflict_level, trust>>>> of an actor and its relation
ResolveGrid == {<<300, <<100, 600>>>>, <<150, <<800, 100>>>>, <<900, <<800, 100>>>>}

\* resolve_sanctions(world, actions): every actor's active_sanctions and
\* sanction_years are rebuilt from its action's intents and what was active
ResolveSanctionsCall ==
    /\ calls < MaxResolveCalls
    /\ \E lists \in [Agents -> UNION {SanctionLists(a) : a \in Agents}],
          actor \in [Agents -> ResolveGrid],
          blocks \in ResolveBlockGrid :
        /\ \A a \in Agents : lists[a] \in SanctionLists(a)
        /\ LET intents == [a \in Agents |-> _intent_map_sanctions(lists[a])]
               res == [a \in Agents |-> [t \in Agents |->
                        ResolveOne(a, t, intents[a][t],
                                   _sanction_support(actor[a][1], actor[a][2][1],
                                                     actor[a][2][2], blocks, intents[a][t]),
                                   active_sanctions[a][t], sanction_years[a][t])]]
           IN /\ active_sanctions' = [a \in Agents |-> [t \in Agents |-> res[a][t][1]]]
              /\ sanction_years' = [a \in Agents |-> [t \in Agents |-> res[a][t][2]]]
              /\ since_imposed' = [a \in Agents |-> [t \in Agents |->
                    IF res[a][t][3] THEN 0
                    ELSE IF since_imposed[a][t] < 0 THEN -1
                    ELSE Min(since_imposed[a][t] + 1, MIN_DURATION + 1)]]
              /\ last_step' = [result |-> "resolved", intents |-> intents]
    /\ calls' = calls + 1
    /\ UNCHANGED <<time, worldVars, finVars, climVars, runVars, obsVars>>

SpecResolve == SancSpecInit /\ [][ResolveSanctionsCall]_vars

\* C23, as the claim states it: after resolve_sanctions, every pair of distinct
\* agents whose actor's action carried a mild or strong sanction intent has an
\* active sanction of at least the intended severity.
C23_AsStated ==
    last_step.result = "resolved" =>
        \A a \in Agents : \A t \in Agents \ {a} :
            last_step.intents[a][t] \in {"mild", "strong"} =>
                /\ active_sanctions[a][t] # Absent
                /\ severity(active_sanctions[a][t]) >= severity(last_step.intents[a][t])

----------------------------------------------------------------------------
(* apply_sanctions_effects with the sanctions and the gdp before recorded   *)

MaxDragCalls == 2

\* apply_sanctions_effects(world) where actor A's active_sanctions are `sanctions`
SanctionDragCall ==
    \E sanctions \in SanctionGrid : \E out \in {SanctionsOf(LookupWorld, "A", sanctions)} :
        /\ calls < MaxDragCalls
        /\ calls' = calls + 1
        /\ agents' = out.agents
        /\ relations' = out.relations
        /\ last_step' = [result |-> "sanctioned", actor |-> "A", sanctions |-> sanctions,
                         gdp_before |-> [a \in DOMAIN agents |-> agents[a].gdp]]
        /\ UNCHANGED <<time, war_started, sancVars, finVars, climVars, runVars, obsVars>>

SpecDrag == LookupSpecInit /\ [][SanctionDragCall]_vars

\* C24, as the claim states it: for every active sanction of severity mild or
\* strong (between two agents of the world that have a relation),
\* apply_sanctions_effects lowers the gdp of both the sanctioning actor and the
\* sanctioned target.
C24_AsStated ==
    last_step.result = "sanctioned" =>
        \A t \in DOMAIN last_step.sanctions :
            ( /\ t \in DOMAIN agents /\ t # last_step.actor
              /\ <<last_step.actor, t>> \in DOMAIN relations
              /\ last_step.sanctions[t] \in {"mild", "strong"} ) =>
                /\ agents[t].gdp < last_step.gdp_before[t]
                /\ agents[last_step.actor].gdp < last_step.gdp_before[last_step.actor]

----------------------------------------------------------------------------
(* Coalitions: political_dynamics.py update_coalitions                      *)

MaxCoalitionTime == 7
COOLDOWN == 3
NEVER_CHANGED == -999
SWITCH_MARGIN == 80

\* the insertion order of the dict `blocks`: first appearance over world.agents,
\* then setdefault("NonAligned")
RECURSIVE BlockKeys(_, _)
BlockKeys(w, n) ==
    IF n = 0 THEN <<>>
    ELSE LET before == BlockKeys(w, n - 1)
             b == IF n > Len(WarOrder) THEN "NonAligned" ELSE w.agents[WarOrder[n]].alliance_block
         IN  IF \E i \in 1..Len(before) : before[i] = b THEN before ELSE Append(before, b)

BlockMembers(w, block) == {a \in WarAgents : w.agents[a].alliance_block = block}

RECURSIVE TermSum(_, _)
TermSum(S, f) ==
    IF S = {} THEN 0 ELSE LET x == CHOOSE y \in S : TRUE IN f[x] + TermSum(S \ {x}, f)

_block_score(agent_id, block, w) ==
    LET openness == w.agents[agent_id].coalition_openness
        members == BlockMembers(w, block) \ {agent_id}
        term == [m \in members |->
                    LET rel == w.relations[<<agent_id, m>>]
                    IN  rel.trust - (6 * rel.conflict_level) \div 10
                            + (3 * effective_trade_intensity(rel)) \div 10]
    IN  IF block = "NonAligned" THEN (5 * openness) \div 100
        ELSE IF members = {} THEN -Scale
        ELSE Mul(openness, TermSum(members, term) \div Cardinality(members))

\* update_coalitions line 402 with the cooldown test dropped
not_in_cooldown(now, last_block_change, cooldown) == FALSE

\* update_coalitions line 402
in_cooldown(now, last_block_change, cooldown) == now - last_block_change < cooldown

\* update_coalitions lines 408-414: the first block with the strictly best score
RECURSIVE BestBlock(_, _, _, _)
BestBlock(w, agent_id, keys, n) ==
    IF n = 0
    THEN <<w.agents[agent_id].alliance_block,
           _block_score(agent_id, w.agents[agent_id].alliance_block, w)>>
    ELSE LET best == BestBlock(w, agent_id, keys, n - 1)
             score == _block_score(agent_id, keys[n], w)
         IN  IF keys[n] # w.agents[agent_id].alliance_block /\ score > best[2]
             THEN <<keys[n], score>> ELSE best

\* update_coalitions(world, cooldown): `blocks` is built once, before the loop,
\* so every agent is scored against the memberships at the start of the call
update_coalitions(w, cooldown) ==
    LET keys == BlockKeys(w, Len(WarOrder) + 1)
        moved(a) ==
            LET ag == w.agents[a]
                best == BestBlock(w, a, keys, Len(keys))
            IN  IF in_cooldown(w.time, ag.last_block_change, cooldown) THEN ag
                ELSE IF best[1] # ag.alliance_block
                        /\ best[2] - _block_score(a, ag.alliance_block, w) > SWITCH_MARGIN
                THEN [ag EXCEPT !.alliance_block = best[1], !.last_block_change = w.time]
                ELSE ag
    IN  [w EXCEPT !.agents = [a \in WarAgents |-> moved(a)]]

\* a relation towards a friend, and towards anybody else
WarmRelation == [trust |-> 900, conflict_level |-> 0, trade_intensity |-> 500, trade_barrier |-> 0]
ColdRelation == [trust |-> 100, conflict_level |-> 800, trade_intensity |-> 500, trade_barrier |-> 0]
\* who each agent is on good terms with this year; an agent naming itself has no friend
FriendGrid == [WarAgents -> WarAgents]

CoalitionAgent(block, openness) ==
    [alliance_block |-> block, coalition_openness |-> openness,
     last_block_change |-> NEVER_CHANGED]

CoalitionInit ==
    /\ agents = [a \in WarAgents |->
                    CoalitionAgent(IF a = "C" THEN "East" ELSE "West", 500)]
    /\ relations = [p \in WarPairs |-> ColdRelation]
    /\ war_started = {}

\* one step as far as coalitions go: the relations have moved (update_relations
\* and the year's actions), resolve_foreign_policy calls update_coalitions, and
\* step_world advances world.time
CoalitionStep ==
    /\ time < MaxCoalitionTime
    /\ \E friend \in FriendGrid :
        \E rels \in {[p \in WarPairs |-> IF friend[p[1]] = p[2] THEN WarmRelation ELSE ColdRelation]} :
        \E w \in {update_coalitions([agents |-> agents, relations |-> rels, time |-> time], COOLDOWN)} :
            /\ agents' = w.agents
            /\ relations' = rels
            /\ last_step' = [result |-> "coalitions", time |-> time,
                             changed |-> {a \in WarAgents :
                                 w.agents[a].alliance_block # agents[a].alliance_block},
                             previous |-> [a \in WarAgents |->
                                 IF last_step.result = "coalitions" /\ a \in last_step.changed
                                 THEN last_step.time
                                 ELSE IF last_step.result = "coalitions" THEN last_step.previous[a]
                                 ELSE NEVER_CHANGED]]
    /\ time' = time + 1
    /\ UNCHANGED <<war_started, calls, sancVars, finVars, climVars, runVars, obsVars>>

CoalitionSpecInit == time = 0 /\ CoalitionInit /\ SancInit /\ FinIdle /\ AuxIdle /\ ObsIdle /\ RunIdle /\ ClimIdle
SpecCoalition == CoalitionSpecInit /\ [][CoalitionStep]_vars

\* C25: an agent whose alliance_block changed at time t does not change block
\* again at any time earlier than t + cooldown: whenever a step changes an
\* agent's block, the agent's previous change, if any, lies at least cooldown
\* (3) years back.
C25_CoalitionCooldown ==
    last_step.result = "coalitions" =>
        \A a \in last_step.changed :
            last_step.previous[a] # NEVER_CHANGED =>
                last_step.time >= last_step.previous[a] + COOLDOWN

\* an agent has changed block a second time, exactly cooldown years after the first
C25_Witness ==
    /\ last_step.result = "coalitions"
    /\ \E a \in last_step.changed :
        /\ last_step.previous[a] # NEVER_CHANGED
        /\ last_step.time = last_step.previous[a] + COOLDOWN

----------------------------------------------------------------------------
(* Climate shocks: climate.py apply_climate_extreme_events and              *)
(* economy.py update_economy_output                                         *)

MaxShockTime == 4
SHOCK_YEARS == 2
SHOCK_PENALTY_MAX == 100

\* severity = (0.03 + 0.15 risk)(1 - 0.5 resilience) of an event, in thousandths
SeverityGrid == {15, 90, 180}
\* gdp_potential * _scale_factor * effective_damage_multiplier, in thousandths
ShockTargetGrid == {900, 1100}

\* apply_climate_extreme_events lines 208-213 for an agent the event has hit
record_shock(economy, sev) ==
    [economy EXCEPT
        !.climate_shock_years = Max(@, SHOCK_YEARS),
        !.climate_shock_penalty = Max(@, Min(SHOCK_PENALTY_MAX, sev \div 2))]

\* update_economy_output lines 51-56 with the clearing of line 56 left out
shock_target_uncleared(economy, base_target) ==
    IF economy.climate_shock_years > 0
    THEN [economy |-> [economy EXCEPT !.climate_shock_years = @ - 1],
          gdp_target |-> Mul(base_target, Max(0, Scale - economy.climate_shock_penalty))]
    ELSE [economy |-> economy, gdp_target |-> base_target]

\* update_economy_output lines 51-56: the target after the penalty, and the
\* counter and penalty it leaves
shock_target(economy, base_target) ==
    IF economy.climate_shock_years > 0
    THEN [economy |-> [economy EXCEPT
                          !.climate_shock_years = @ - 1,
                          !.climate_shock_penalty =
                              IF economy.climate_shock_years - 1 <= 0 THEN 0 ELSE @],
          gdp_target |-> Mul(base_target, Max(0, Scale - economy.climate_shock_penalty))]
    ELSE [economy |-> economy, gdp_target |-> base_target]

\* update_economy_output lines 51-63: the penalty, then the move toward the target
output_after_shock(economy, base_target) ==
    LET out == shock_target(economy, base_target)
    IN  [economy |-> update_economy_output(out.economy, out.gdp_target),
         gdp_target |-> out.gdp_target]

ShockInit ==
    /\ agents = [a \in Agents |->
                    [gdp |-> 1000, climate_shock_years |-> 0, climate_shock_penalty |-> 0]]
    /\ relations = <<>>
    /\ war_started = {}

\* step_world lines 316-322: the extreme events of the year (which agents are
\* hit is random), then update_economy_output for every agent
ShockStep ==
    /\ time < MaxShockTime
    /\ \E hit \in SUBSET Agents, sev \in SeverityGrid, base_target \in ShockTargetGrid :
        \E shocked \in {[a \in Agents |->
                          IF a \in hit THEN record_shock(agents[a], sev) ELSE agents[a]]} :
        \E out \in {[a \in Agents |-> output_after_shock(shocked[a], base_target)]} :
            /\ agents' = [a \in Agents |-> out[a].economy]
            /\ last_step' = [result |-> "output", hit |-> hit, base_target |-> base_target,
                             years_in |-> [a \in Agents |-> shocked[a].climate_shock_years],
                             penalty_in |-> [a \in Agents |-> shocked[a].climate_shock_penalty],
                             gdp_target |-> [a \in Agents |-> out[a].gdp_target]]
    /\ time' = time + 1
    /\ UNCHANGED <<relations, war_started, calls, sancVars, finVars, climVars, runVars, obsVars>>

ShockSpecInit == time = 0 /\ ShockInit /\ SancInit /\ FinIdle /\ AuxIdle /\ ObsIdle /\ RunIdle /\ ClimIdle
SpecShock == ShockSpecInit /\ [][ShockStep]_vars

\* C26: once an extreme event has recorded an output penalty, every output
\* update with a positive remaining-years counter lowers the counter by exactly
\* 1 and applies the penalty to the output target; the penalty is kept while
\* the counter stays positive and cleared when it reaches 0; the counter is
\* never negative, and the penalty is non-zero only while the counter is
\* positive (on entry to the output update and after it).
C26_ShockLifecycle ==
    \A a \in DOMAIN agents :
        ("climate_shock_years" \in DOMAIN agents[a]) =>
            /\ agents[a].climate_shock_years >= 0
            /\ agents[a].climate_shock_penalty # 0 => agents[a].climate_shock_years > 0
            /\ last_step.result = "output" =>
                /\ last_step.penalty_in[a] # 0 => last_step.years_in[a] > 0
                /\ a \in last_step.hit => last_step.penalty_in[a] > 0
                /\ last_step.years_in[a] > 0 =>
                    /\ agents[a].climate_shock_years = last_step.years_in[a] - 1
                    /\ last_step.gdp_target[a]
                         = Mul(last_step.base_target, Scale - last_step.penalty_in[a])
                    /\ agents[a].climate_shock_years > 0 =>
                         agents[a].climate_shock_penalty = last_step.penalty_in[a]
                    /\ agents[a].climate_shock_years = 0 =>
                         agents[a].climate_shock_penalty = 0
                /\ last_step.years_in[a] = 0 =>
                    /\ agents[a].climate_shock_years = 0
                    /\ last_step.gdp_target[a] = last_step.base_target

\* the year after an event, with no new event: the penalty is applied a second
\* time, the counter goes from 1 to 0 and the penalty is cleared
C26_Witness ==
    /\ last_step.result = "output"
    /\ "A" \notin last_step.hit
    /\ last_step.years_in["A"] = 1
    /\ last_step.penalty_in["A"] = 45
    /\ last_step.gdp_target["A"] < last_step.base_target
    /\ agents["A"].climate_shock_years = 0
    /\ agents["A"].climate_shock_penalty = 0

----------------------------------------------------------------------------
(* Metals: v10_3_prod/resources.py update_resource_stocks                   *)

MaxStockCalls == 3
METALS_RECYCLING_RATE == 450
METALS_TECH_EXPANSION == 5

\* (price / metals_price_ref) ** -0.3 in thousandths: price at the reference, price doubled
AdjustGrid == {1000, 812}
\* the consumption the year's trade and actions have left an agent with
ConsumptionGrid == {0, 2000, 3000}
ProductionGrid == {0, 1000}

\* update_resource_stocks lines 61-106 for the metals of one agent:
\* the new ResourceSubState, the primary_production subtracted from the
\* reserve and the amount recycled
metals_update(resource, adjust) ==
    LET consumption == Max(0, Mul(resource.consumption, adjust))
        primary_production == Max(0, resource.production)
        recycle_rate == Max(0, Min(900, METALS_RECYCLING_RATE))
        recycled == Mul(recycle_rate, Max(0, consumption))
        tech_expansion == Mul(METALS_TECH_EXPANSION, Max(resource.own_reserve, 0))
        new_reserve == resource.own_reserve - primary_production + tech_expansion
    IN  [resource |-> [own_reserve |-> Max(0, new_reserve),
                       production |-> primary_production + recycled,
                       consumption |-> consumption],
         primary_production |-> primary_production,
         recycled |-> recycled]

StockInit ==
    /\ \E production \in [Agents -> ProductionGrid] :
        agents = [a \in Agents |-> [own_reserve |-> 100000, production |-> production[a],
                                    consumption |-> 2000]]
    /\ relations = <<>>
    /\ war_started = {}

\* one year: trade and actions have set the agents' consumption, then
\* update_resource_stocks(world) runs.  last_step keeps, for every agent, what
\* the call subtracted from the reserve and how much of the production it
\* read had been added by the recycling of earlier calls.
ResourceStocksCall ==
    /\ calls < MaxStockCalls
    /\ \E adjust \in AdjustGrid, consumption \in [Agents -> ConsumptionGrid] :
        \E out \in {[a \in Agents |->
                      metals_update([agents[a] EXCEPT !.consumption = consumption[a]], adjust)]} :
            /\ agents' = [a \in Agents |-> out[a].resource]
            /\ last_step' = [result |-> "stocks",
                             primary_production |-> [a \in Agents |-> out[a].primary_production],
                             recycled_before |-> [a \in Agents |->
                                 IF last_step.result = "stocks"
                                 THEN last_step.recycled_before[a] + last_step.recycled[a]
                                 ELSE 0],
                             recycled |-> [a \in Agents |-> out[a].recycled],
                             production_in |-> [a \in Agents |-> agents[a].production]]
    /\ calls' = calls + 1
    /\ UNCHANGED <<time, relations, war_started, sancVars, finVars, climVars, runVars, obsVars>>

StockSpecInit == time = 0 /\ StockInit /\ SancInit /\ FinIdle /\ AuxIdle /\ ObsIdle /\ RunIdle /\ ClimIdle
SpecStock == StockSpecInit /\ [][ResourceStocksCall]_vars

\* C27, as the claim states it: over any sequence of update_resource_stocks
\* calls, what a call subtracts from an agent's metals reserve is its primary
\* production only: the production it read less everything the recycling of
\* earlier calls has added to it.
C27_AsStated ==
    last_step.result = "stocks" =>
        \A a \in Agents :
            last_step.primary_production[a]
                = last_step.production_in[a] - last_step.recycled_before[a]

----------------------------------------------------------------------------
(* War-state symmetry of the two directed relations of a pair               *)

Reverse(p) == <<p[2], p[1]>>

\* C28: starting from a world where both directions of every pair agree, at
\* the end of every step the two directed relations of each pair have the same
\* at_war flag and the same war_years.
C28_WarSymmetry ==
    \A p \in WarPairs :
        /\ relations[p].at_war = relations[Reverse(p)].at_war
        /\ relations[p].war_years = relations[Reverse(p)].war_years

\* a war of two years seen from both sides, next to a pair at peace
C28_Witness ==
    /\ relations[<<"A", "C">>].at_war /\ relations[<<"C", "A">>].at_war
    /\ relations[<<"A", "C">>].war_years = 2
    /\ relations[<<"C", "A">>].war_years = 2
    /\ ~relations[<<"B", "C">>].at_war /\ ~relations[<<"C", "B">>].at_war

----------------------------------------------------------------------------
(* Trade deals: actions.py apply_trade_deals over the actions of a step.    *)
(* Volumes, prices and fx_reserves are in thousandths.  A floating-point    *)
(* quotient or product is the nearest representable number to the exact     *)
(* one; here the representable numbers are the thousandths.                 *)

MaxTradeCalls == 2

\* the nearest integer to a / b, for a >= 0 and b > 0
RoundDiv(a, b) == (2 * a + b) \div (2 * b)

\* apply_trade_deals.get_price
get_price(base_price, preference) ==
    RoundDiv(base_price * (CASE preference = "cheap" -> 900
                             [] preference = "premium" -> 1100
                             [] OTHER -> 1000), Scale)

\* lines 203 and 220: max(0.0, fx_reserves) / max(price, 1e-6)
fx_limit(fx_reserves, price) == RoundDiv(Max(0, fx_reserves) * Scale, Max(price, EPS))

\* apply_trade_deals lines 185-245 for one deal of initiator_id; acc is the
\* agents and relations so far and the deals executed so far
TradeOne(acc, initiator_id, deal, base_price) ==
    LET partner_id == deal.partner
        volume_desired == Max(0, deal.volume_change)
        price == get_price(base_price, deal.price_preference)
        seller_id == IF deal.direction = "export" THEN initiator_id ELSE partner_id
        buyer_id == IF deal.direction = "export" THEN partner_id ELSE initiator_id
    IN  IF \/ partner_id \notin DOMAIN acc.agents
           \/ volume_desired <= 0
           \/ deal.direction \notin {"export", "import"}
        THEN acc
        ELSE LET seller == acc.agents[seller_id]
                 buyer == acc.agents[buyer_id]
                 export_capacity == Max(0, seller.production - seller.consumption)
                 volume_real == Min(Min(volume_desired, export_capacity),
                                    fx_limit(buyer.fx_reserves, price))
                 value == RoundDiv(volume_real * price, Scale)
                 consumed == [acc.agents EXCEPT ![buyer_id].consumption = @ + volume_real]
                 credited == IF deal.direction = "export"
                             THEN [consumed EXCEPT ![seller_id].fx_reserves = @ + value]
                             ELSE [consumed EXCEPT ![buyer_id].fx_reserves = @ - value]
                 settled == IF deal.direction = "export"
                            THEN [credited EXCEPT ![buyer_id].fx_reserves = @ - value]
                            ELSE [credited EXCEPT ![seller_id].fx_reserves = @ + value]
             IN  IF export_capacity <= 0 \/ volume_real <= 0 THEN acc
                 ELSE [agents |-> settled,
                       relations |->
                           IF <<initiator_id, partner_id>> \in DOMAIN acc.relations
                           THEN [acc.relations EXCEPT
                                    ![<<initiator_id, partner_id>>] = DealIntensity(@, volume_real),
                                    ![<<partner_id, initiator_id>>] = DealIntensity(@, volume_real)]
                           ELSE acc.relations,
                       trace |-> Append(acc.trace,
                                    [seller |-> seller_id, buyer |-> buyer_id,
                                     volume |-> volume_real, value |-> value,
                                     buyer_before |-> buyer.fx_reserves,
                                     seller_before |-> seller.fx_reserves,
                                     buyer_after |-> settled[buyer_id].fx_reserves,
                                     seller_after |-> settled[seller_id].fx_reserves])]

RECURSIVE TradeOf(_, _, _, _)
TradeOf(acc, initiator_id, deals, base_price) ==
    IF deals = <<>> THEN acc
    ELSE Then(TradeOne(acc, initiator_id, Head(deals), base_price),
              LAMBDA x : TradeOf(x, initiator_id, Tail(deals), base_price))

\* apply_trade_deals: the initiators in the order of the actions dict
RECURSIVE TradeFrom(_, _, _, _)
TradeFrom(acc, i, proposed, base_price) ==
    IF i > Len(WarOrder) THEN acc
    ELSE Then(TradeOf(acc, WarOrder[i], proposed[WarOrder[i]], base_price),
              LAMBDA x : TradeFrom(x, i + 1, proposed, base_price))

\* fx_reserves: next to nothing, the factory's 0.1, plenty
FxGrid == {9, 100, 200000}
\* the global price of the resource: the factory's 1.0 and the bounds 0.3 and 5.0
PriceGrid == {300, 1000, 5000}

TradeDeal(partner, direction, volume_change, price_preference) ==
    [partner |-> partner, direction |-> direction, volume_change |-> volume_change,
     price_preference |-> price_preference]

\* proposed_trade_deals of the three actions
ProposedGrid ==
    { [a \in WarAgents |-> IF a = "A" THEN da ELSE IF a = "B" THEN db ELSE <<>>] :
        da \in { <<>>,
                 <<TradeDeal("B", "export", 40000, "fair")>>,
                 <<TradeDeal("B", "export", 40000, "premium"),
                   TradeDeal("C", "export", 40000, "cheap")>>,
                 <<TradeDeal("C", "import", 20000, "premium")>>,
                 <<TradeDeal("A", "export", 20000, "fair")>>,
                 <<TradeDeal(Outsider, "export", 20000, "fair"),
                   TradeDeal("B", "barter", 20000, "fair")>> },
        db \in { <<>>,
                 <<TradeDeal("A", "import", 40000, "fair")>>,
                 <<TradeDeal("C", "export", -5, "fair")>> } }

TradeInit ==
    /\ \E fx \in FxGrid, base_price \in PriceGrid :
        /\ agents = [a \in WarAgents |-> [LookupAgent EXCEPT !.fx_reserves = fx]]
        /\ global_state = [prices |-> base_price]
    /\ relations = [p \in LookupPairs |-> LookupRelation]
    /\ war_started = {}

\* apply_trade_deals(world, actions).  last_step keeps the deals executed,
\* every agent's surplus and the sum of fx_reserves at the start of the call.
TradeCall ==
    /\ calls < MaxTradeCalls
    /\ \E proposed \in ProposedGrid :
        \E out \in {TradeFrom([agents |-> agents, relations |-> relations, trace |-> <<>>],
                              1, proposed, global_state.prices)} :
            /\ agents' = out.agents
            /\ relations' = out.relations
            /\ last_step' = [result |-> "traded", trace |-> out.trace,
                             surplus |-> [a \in WarAgents |->
                                            agents[a].production - agents[a].consumption],
                             fx_before |-> [a \in WarAgents |-> agents[a].fx_reserves]]
    /\ calls' = calls + 1
    /\ UNCHANGED <<time, war_started, global_state, sancVars, finVars, runVars, obsVars>>

TradeSpecInit == time = 0 /\ TradeInit /\ SancInit /\ FinIdle /\ AuxIdle /\ ObsIdle /\ RunIdle
SpecTrade == TradeSpecInit /\ [][TradeCall]_vars

RECURSIVE FxSum(_, _)
FxSum(fx, n) == IF n = 0 THEN 0 ELSE fx[WarOrder[n]] + FxSum(fx, n - 1)

\* C29, as the claim states it: every deal executed by apply_trade_deals moves
\* the same value out of the buyer's fx_reserves as into the seller's, the sum
\* of fx_reserves over all agents is unchanged by the call, and a buyer whose
\* fx_reserves were non-negative before a deal does not have negative
\* fx_reserves after it.
C29_AsStated ==
    last_step.result = "traded" =>
        /\ FxSum([a \in WarAgents |-> agents[a].fx_reserves], Len(WarOrder))
              = FxSum(last_step.fx_before, Len(WarOrder))
        /\ \A k \in 1..Len(last_step.trace) :
             LET d == last_step.trace[k]
             IN  /\ d.buyer # d.seller =>
                       /\ d.buyer_before - d.buyer_after = d.value
                       /\ d.seller_after - d.seller_before = d.value
                 /\ d.buyer_before >= 0 => d.buyer_after >= 0

RECURSIVE SoldBy(_, _, _)
SoldBy(trace, a, n) ==
    IF n = 0 THEN 0
    ELSE (IF trace[n].seller = a THEN trace[n].volume ELSE 0) + SoldBy(trace, a, n - 1)

\* C30, as the claim states it: within one apply_trade_deals call the total
\* volume an agent sells across all deals (its own export deals and the other
\* agents' import deals from it) is at most its surplus, production minus
\* consumption, at the start of the call.
C30_AsStated ==
    last_step.result = "traded" =>
        \A a \in WarAgents :
            SoldBy(last_step.trace, a, Len(last_step.trace)) <= Max(0, last_step.surplus[a])

====
